---- MODULE Spec2Model ----
(***************************************************************************)
(* The import-rewriting pipeline of scripts/update.ts.                     *)
(*                                                                         *)
(* Text is a sequence of tokens.  Every token lies wholly inside or wholly *)
(* outside each character class the regular expressions of update.ts use   *)
(* (\s, [^\s,;], [^}], [^'"], the literals), "@" and "/" are tokens of     *)
(* their own, so a regular expression is matched token by token exactly as *)
(* the source matches it character by character.                           *)
(***************************************************************************)
EXTENDS Integers, Sequences, FiniteSets, TLC

\* ------------------------------------------------------------------ text

WS == {" ", "\n"}
QUOTES == {"\"", "'"}
WsCommaSemi == WS \cup {",", ";"}

\* the tokens whose first character is "@"
StartsWithAt == {"@", "@radix-ui"}

\* String.prototype.startsWith
startsWith(s, pre) == Len(s) >= Len(pre) /\ SubSeq(s, 1, Len(pre)) = pre

\* the 1-based positions at which sub occurs in s
Occurrences(s, sub) ==
    {i \in 1..(Len(s) - Len(sub) + 1) : SubSeq(s, i, i + Len(sub) - 1) = sub}

\* String.prototype.includes
includes(s, sub) == Occurrences(s, sub) # {}

Max(S) == CHOOSE x \in S : \A y \in S : y <= x
Min(S) == CHOOSE x \in S : \A y \in S : x <= y

\* the first occurrence where lastIndexOf takes the last (0 when absent)
indexOf(s, sub) == IF Occurrences(s, sub) = {} THEN 0 ELSE Min(Occurrences(s, sub))

\* String.prototype.lastIndexOf, as a 1-based position (0 when absent)
lastIndexOf(s, sub) == IF Occurrences(s, sub) = {} THEN 0 ELSE Max(Occurrences(s, sub))

RECURSIVE split(_, _)
\* String.prototype.split(sep) for a one-token separator: the sequence of parts
split(s, sep) ==
    IF \A i \in 1..Len(s) : s[i] # sep THEN <<s>>
    ELSE LET i == Min({j \in 1..Len(s) : s[j] = sep})
         IN <<SubSeq(s, 1, i - 1)>> \o split(SubSeq(s, i + 1, Len(s)), sep)

RECURSIVE join(_, _)
\* Array.prototype.join(sep)
join(parts, sep) ==
    IF parts = <<>> THEN <<>>
    ELSE IF Len(parts) = 1 THEN parts[1]
    ELSE parts[1] \o <<sep>> \o join(Tail(parts), sep)

\* ----------------------------------------------------- regular expressions
\* A pattern maps a set of positions (the index of the next token to read)
\* to the set of positions it can end at.  The quantifiers of update.ts are
\* all followed by something their class excludes, so each consumes its
\* longest run; alternation and the optional groups are kept as sets.

RECURSIVE SkipIn(_, _, _)
SkipIn(text, p, cls) ==
    IF p <= Len(text) /\ text[p] \in cls THEN SkipIn(text, p + 1, cls) ELSE p

RECURSIVE SkipNotIn(_, _, _)
SkipNotIn(text, p, excl) ==
    IF p <= Len(text) /\ text[p] \notin excl THEN SkipNotIn(text, p + 1, excl) ELSE p

\* one token out of cls
LitIn(text, S, cls) == {p + 1 : p \in {q \in S : q <= Len(text) /\ text[q] \in cls}}
Lit(text, S, tok) == LitIn(text, S, {tok})
\* [cls]* and [cls]+
Star(text, S, cls) == {SkipIn(text, p, cls) : p \in S}
Plus(text, S, cls) == Star(text, LitIn(text, S, cls), cls)
\* [^excl]* and [^excl]+
StarNot(text, S, excl) == {SkipNotIn(text, p, excl) : p \in S}
PlusNot(text, S, excl) ==
    {SkipNotIn(text, p, excl) : p \in {q \in S : q <= Len(text) /\ text[q] \notin excl}}

\* (?:{[^}]*}|\*\s+as\s+[^\s,;]+|[^\s,;]+)
Binding(text, S) ==
    Lit(text, StarNot(text, Lit(text, S, "{"), {"}"}), "}")
    \cup PlusNot(text, Plus(text, Lit(text, Plus(text, Lit(text, S, "*"), WS), "as"), WS),
                 WsCommaSemi)
    \cup PlusNot(text, S, WsCommaSemi)

RECURSIVE BindingMore(_, _, _)
\* (?:\s*,\s*(?:{[^}]*}|\*\s+as\s+[^\s,;]+|[^\s,;]+))*
BindingMore(text, done, frontier) ==
    IF frontier = {} THEN done
    ELSE LET nxt == Binding(text, Star(text, Lit(text, Star(text, frontier, WS), ","), WS))
                    \ done
         IN BindingMore(text, done \cup nxt, nxt)

\* binding(,binding)*\s+from\s+
FromClause(text, S) ==
    LET first == Binding(text, S)
    IN Plus(text, Lit(text, Plus(text, BindingMore(text, first, first), WS), "from"), WS)

\* ImportHead without the optional `type` keyword
ImportHeadNoType(text, start) ==
    LitIn(text, FromClause(text, Plus(text, Lit(text, {start}, "import"), WS)), QUOTES)

\* import\s+(?:(?:type\s+)?<FromClause>['"]) : the positions right after the opening quote
ImportHead(text, start) ==
    LET afterImport == Plus(text, Lit(text, {start}, "import"), WS)
        afterType == afterImport \cup Plus(text, Lit(text, afterImport, "type"), WS)
    IN LitIn(text, FromClause(text, afterType), QUOTES)

\* ExternalPathEnd without the alternative for scoped packages
ExternalPathEndNoScoped(text, p) ==
    {r \in (IF p <= Len(text) /\ text[p] \notin StartsWithAt
            THEN {SkipNotIn(text, p + 1, QUOTES)} ELSE {}) :
        r <= Len(text) /\ text[r] \in QUOTES}

\* ([^@][^'"]*|@(?!\/)[^'"]*)(["']) from position p: the positions of the closing quote
ExternalPathEnd(text, p) ==
    LET notAt == IF p <= Len(text) /\ text[p] \notin StartsWithAt
                 THEN {SkipNotIn(text, p + 1, QUOTES)} ELSE {}
        at == IF /\ p <= Len(text)
                 /\ text[p] \in StartsWithAt
                 /\ ~(text[p] = "@" /\ p + 1 <= Len(text) /\ text[p + 1] = "/")
              THEN {SkipNotIn(text, p + 1, QUOTES)} ELSE {}
    IN {r \in notAt \cup at : r <= Len(text) /\ text[r] \in QUOTES}

\* (@\/[^'"]+)(['"]) from position p: the positions of the closing quote
LocalPathEnd(text, p) ==
    {r \in PlusNot(text, Lit(text, Lit(text, {p}, "@"), "/"), QUOTES) :
        r <= Len(text) /\ text[r] \in QUOTES}

\* The matches of externalImportRegex (kind "external") or localImportRegex
\* (kind "local") that start at position start: [from, to) is the capture
\* group of the path, the token at `to` the captured quote.
RegexMatch(text, start, kind) ==
    IF start > Len(text) \/ text[start] # "import" THEN {}
    ELSE UNION {{[from |-> p, to |-> r] :
                   r \in IF kind = "external" THEN ExternalPathEnd(text, p)
                         ELSE LocalPathEnd(text, p)} : p \in ImportHead(text, start)}

\* ------------------------------------------------------- transformImports

CORE_MODULES == {<<"react">>, <<"clsx">>, <<"tailwind-merge">>, <<"lucide-react">>}

\* externalReplacer without the CORE_MODULES test
externalReplacerNoCore(match, path, suffix) ==
    SubSeq(match, 1, lastIndexOf(match, path) - 1) \o <<"npm:">> \o path \o suffix

\* the callback of content.replace(externalImportRegex, ...)
externalReplacer(match, path, suffix) ==
    LET prefixEnd == lastIndexOf(match, path)
        prefix == SubSeq(match, 1, prefixEnd - 1)
    IN IF path \in CORE_MODULES
       THEN prefix \o path \o suffix
       ELSE prefix \o <<"npm:">> \o path \o suffix

\* localReplacer with parts.slice(1) for parts.slice(2)
localReplacerSlice1(match, path, suffix) ==
    LET prefixEnd == lastIndexOf(match, path)
        prefix == SubSeq(match, 1, prefixEnd - 1)
    IN IF startsWith(path, <<"@", "/", "registry", "/", "default", "/">>)
       THEN LET newPath == <<"@", "/", "default", "/">> \o SubSeq(path, 7, Len(path))
            IN IF includes(newPath, <<"/", "ui", "/">>)
               THEN prefix \o newPath \o <<".tsx">> \o suffix
               ELSE prefix \o newPath \o <<".ts">> \o suffix
       ELSE IF startsWith(path, <<"@", "/", "lib", "/">>)
               \/ startsWith(path, <<"@", "/", "hooks", "/">>)
       THEN LET parts == split(path, "/")
                directory == parts[2]
                filename == join(SubSeq(parts, 2, Len(parts)), "/")
            IN prefix \o <<"@", "/", "default", "/">> \o directory \o <<"/">> \o filename
                  \o <<".ts">> \o suffix
       ELSE IF path = <<"@", "/", "lib", "/", "utils">>
       THEN prefix \o <<"@", "/", "default", "/", "lib", "/", "utils", ".ts">> \o suffix
       ELSE IF includes(path, <<"/", "ui", "/">>)
            THEN prefix \o <<"@", "/", "default">> \o SubSeq(path, 3, Len(path))
                    \o <<".tsx">> \o suffix
            ELSE prefix \o <<"@", "/", "default">> \o SubSeq(path, 3, Len(path))
                    \o <<".ts">> \o suffix

\* localReplacer with the generic rule tried before the rule of lib and hooks
localReplacerGenericFirst(match, path, suffix) ==
    LET prefixEnd == lastIndexOf(match, path)
        prefix == SubSeq(match, 1, prefixEnd - 1)
    IN IF startsWith(path, <<"@", "/", "registry", "/", "default", "/">>)
       THEN LET newPath == <<"@", "/", "default", "/">> \o SubSeq(path, 7, Len(path))
            IN IF includes(newPath, <<"/", "ui", "/">>)
               THEN prefix \o newPath \o <<".tsx">> \o suffix
               ELSE prefix \o newPath \o <<".ts">> \o suffix
       ELSE IF includes(path, <<"/", "ui", "/">>)
            THEN prefix \o <<"@", "/", "default">> \o SubSeq(path, 3, Len(path))
                    \o <<".tsx">> \o suffix
            ELSE prefix \o <<"@", "/", "default">> \o SubSeq(path, 3, Len(path))
                    \o <<".ts">> \o suffix

\* the callback of transformed.replace(localImportRegex, ...)
localReplacer(match, path, suffix) ==
    LET prefixEnd == lastIndexOf(match, path)
        prefix == SubSeq(match, 1, prefixEnd - 1)
    IN IF startsWith(path, <<"@", "/", "registry", "/", "default", "/">>)
       THEN LET newPath == <<"@", "/", "default", "/">> \o SubSeq(path, 7, Len(path))
            IN IF includes(newPath, <<"/", "ui", "/">>)
               THEN prefix \o newPath \o <<".tsx">> \o suffix
               ELSE prefix \o newPath \o <<".ts">> \o suffix
       ELSE IF startsWith(path, <<"@", "/", "lib", "/">>)
               \/ startsWith(path, <<"@", "/", "hooks", "/">>)
       THEN LET parts == split(path, "/")
                directory == parts[2]
                filename == join(SubSeq(parts, 3, Len(parts)), "/")
            IN prefix \o <<"@", "/", "default", "/">> \o directory \o <<"/">> \o filename
                  \o <<".ts">> \o suffix
       ELSE IF path = <<"@", "/", "lib", "/", "utils">>
       THEN prefix \o <<"@", "/", "default", "/", "lib", "/", "utils", ".ts">> \o suffix
       ELSE IF includes(path, <<"/", "ui", "/">>)
            THEN prefix \o <<"@", "/", "default">> \o SubSeq(path, 3, Len(path))
                    \o <<".tsx">> \o suffix
            ELSE prefix \o <<"@", "/", "default">> \o SubSeq(path, 3, Len(path))
                    \o <<".ts">> \o suffix

RECURSIVE replace(_, _, _)
\* String.prototype.replace with a global regular expression and a callback:
\* the leftmost match from pos on is replaced, the scan goes on after it
replace(text, pos, kind) ==
    IF pos > Len(text) THEN <<>>
    ELSE LET ms == RegexMatch(text, pos, kind)
         IN IF ms = {} THEN <<text[pos]>> \o replace(text, pos + 1, kind)
            ELSE LET m == CHOOSE x \in ms : TRUE
                     match == SubSeq(text, pos, m.to)
                     path == SubSeq(text, m.from, m.to - 1)
                     suffix == <<text[m.to]>>
                 IN (IF kind = "external" THEN externalReplacer(match, path, suffix)
                     ELSE localReplacer(match, path, suffix))
                    \o replace(text, m.to + 1, kind)

\* transformImports without the pass over the local imports
transformImportsExternalOnly(text) == replace(text, 1, "external")

transformImports(text) == replace(replace(text, 1, "external"), 1, "local")

\* the callback of the local pass with its third branch, the test of
\* path === '@/lib/utils', taken out
localReplacerNoExact(match, path, suffix) ==
    LET prefixEnd == lastIndexOf(match, path)
        prefix == SubSeq(match, 1, prefixEnd - 1)
    IN IF startsWith(path, <<"@", "/", "registry", "/", "default", "/">>)
       THEN LET newPath == <<"@", "/", "default", "/">> \o SubSeq(path, 7, Len(path))
            IN IF includes(newPath, <<"/", "ui", "/">>)
               THEN prefix \o newPath \o <<".tsx">> \o suffix
               ELSE prefix \o newPath \o <<".ts">> \o suffix
       ELSE IF startsWith(path, <<"@", "/", "lib", "/">>)
               \/ startsWith(path, <<"@", "/", "hooks", "/">>)
       THEN LET parts == split(path, "/")
                directory == parts[2]
                filename == join(SubSeq(parts, 3, Len(parts)), "/")
            IN prefix \o <<"@", "/", "default", "/">> \o directory \o <<"/">> \o filename
                  \o <<".ts">> \o suffix
       ELSE IF includes(path, <<"/", "ui", "/">>)
            THEN prefix \o <<"@", "/", "default">> \o SubSeq(path, 3, Len(path))
                    \o <<".tsx">> \o suffix
            ELSE prefix \o <<"@", "/", "default">> \o SubSeq(path, 3, Len(path))
                    \o <<".ts">> \o suffix

RECURSIVE replaceNoExact(_, _)
\* the local pass of transformImports with that callback
replaceNoExact(text, pos) ==
    IF pos > Len(text) THEN <<>>
    ELSE LET ms == RegexMatch(text, pos, "local")
         IN IF ms = {} THEN <<text[pos]>> \o replaceNoExact(text, pos + 1)
            ELSE LET m == CHOOSE x \in ms : TRUE
                     match == SubSeq(text, pos, m.to)
                     path == SubSeq(text, m.from, m.to - 1)
                     suffix == <<text[m.to]>>
                 IN localReplacerNoExact(match, path, suffix)
                    \o replaceNoExact(text, m.to + 1)

\* transformImports without the branch of path === '@/lib/utils'
transformImportsNoExact(text) == replaceNoExact(replace(text, 1, "external"), 1)

\* the four branches of the local callback, in the order of the if chain
Rules == <<"registry", "libHooks", "exact", "generic">>

\* the condition of a branch taken by itself
Matches(rule, path) ==
    CASE rule = "registry" -> startsWith(path, <<"@", "/", "registry", "/", "default", "/">>)
      [] rule = "libHooks" -> \/ startsWith(path, <<"@", "/", "lib", "/">>)
                              \/ startsWith(path, <<"@", "/", "hooks", "/">>)
      [] rule = "exact" -> path = <<"@", "/", "lib", "/", "utils">>
      [] rule = "generic" -> TRUE

\* the specifier a branch returns, taken by itself
RuleOutput(rule, path) ==
    CASE rule = "registry" ->
            <<"@", "/", "default", "/">> \o SubSeq(path, 7, Len(path))
               \o (IF includes(<<"@", "/", "default", "/">> \o SubSeq(path, 7, Len(path)),
                               <<"/", "ui", "/">>)
                   THEN <<".tsx">> ELSE <<".ts">>)
      [] rule = "libHooks" ->
            <<"@", "/", "default", "/">> \o split(path, "/")[2] \o <<"/">>
               \o join(SubSeq(split(path, "/"), 3, Len(split(path, "/"))), "/") \o <<".ts">>
      [] rule = "exact" -> <<"@", "/", "default", "/", "lib", "/", "utils", ".ts">>
      [] rule = "generic" ->
            <<"@", "/", "default">> \o SubSeq(path, 3, Len(path))
               \o (IF includes(path, <<"/", "ui", "/">>) THEN <<".tsx">> ELSE <<".ts">>)

\* the first branch of the if chain whose condition holds
FirstRule(path) == Rules[Min({k \in 1..Len(Rules) : Matches(Rules[k], path)})]

\* ---------------------------------------------------------- transformFile

\* '/// <reference lib="dom"'
ReferenceProbe == <<"///", " ", "<reference", " ", "lib=", "\"", "dom", "\"">>

\* '/// <reference lib="dom" />\n\n'
ReferenceLine == ReferenceProbe \o <<" ", "/>", "\n", "\n">>

\* ^ under the m flag: the start of the text or of a line
LineStart(text, p) == p = 1 \/ (p - 1 <= Len(text) /\ text[p - 1] = "\n")

\* The matches of importRegex that start at position start: [from, to) is
\* capture group 1, the token at `to` the closing quote.
ImportRegexMatch(text, start) ==
    IF ~LineStart(text, start) THEN {}
    ELSE LET afterImport == Plus(text, Lit(text, Star(text, {start}, WS), "import"), WS)
             afterClause == afterImport \cup FromClause(text, afterImport)
         IN UNION {{[from |-> p, to |-> r] :
                      r \in {x \in PlusNot(text, {p}, QUOTES) :
                                x <= Len(text) /\ text[x] \in QUOTES}} :
                   p \in LitIn(text, afterClause, QUOTES)}

RECURSIVE importPaths(_, _)
\* the successive values of match[1] in the while loop over importRegex.exec
importPaths(text, pos) ==
    IF pos > Len(text) THEN <<>>
    ELSE LET ms == ImportRegexMatch(text, pos)
         IN IF ms = {} THEN importPaths(text, pos + 1)
            ELSE LET m == CHOOSE x \in ms : TRUE
                 IN <<SubSeq(text, m.from, m.to - 1)>> \o importPaths(text, m.to + 1)

\* Sighting with the count of a known specifier left as it is
SightingNoIncrement(imports, importPath) ==
    IF importPath \in DOMAIN imports
    THEN imports
    ELSE imports @@ (importPath :> [count |-> 1, path |-> importPath])

\* the has/get/set of one frequency map for one sighting of importPath
Sighting(imports, importPath) ==
    IF importPath \in DOMAIN imports
    THEN [imports EXCEPT ![importPath].count = @ + 1]
    ELSE imports @@ (importPath :> [count |-> 1, path |-> importPath])

RECURSIVE Categorize(_, _)
\* the body of the while loop, folded over the extracted paths
Categorize(maps, paths) ==
    IF paths = <<>> THEN maps
    ELSE LET importPath == Head(paths)
             next == IF importPath \in CORE_MODULES
                     THEN [maps EXCEPT !.core = Sighting(@, importPath)]
                     ELSE IF startsWith(importPath, <<"@", "/">>)
                     THEN [maps EXCEPT !.local = Sighting(@, importPath)]
                     ELSE [maps EXCEPT !.external = Sighting(@, importPath)]
         IN Categorize(next, Tail(paths))

RECURSIVE KeyOrder(_, _)
\* the insertion order of the keys: Map.prototype.set puts a new key last
KeyOrder(keys, paths) ==
    IF paths = <<>> THEN keys
    ELSE LET importPath == Head(paths)
             category == IF importPath \in CORE_MODULES THEN "core"
                         ELSE IF startsWith(importPath, <<"@", "/">>) THEN "local"
                         ELSE "external"
             known == \E i \in 1..Len(keys[category]) : keys[category][i] = importPath
         IN KeyOrder(IF known THEN keys
                     ELSE [keys EXCEPT ![category] = Append(@, importPath)], Tail(paths))

\* transformFile with the reference line put first whatever the text holds
transformFileAlways(text) == ReferenceLine \o text

\* transformFile that hands the text on as it is
transformFileNever(text) == text

\* the text transformFile returns
transformFile(text) ==
    LET hasReference == includes(text, ReferenceProbe)
    IN IF hasReference THEN text ELSE ReferenceLine \o text

\* ------------------------------------------------------------ source files
\* The files the walk reads: import statements in every surface form, with
\* core, external and local specifiers, and code that is no import.

MaxContext == 1

CoreSpecs == CORE_MODULES
ExternalSpecs ==
    {<<"class-variance-authority">>, <<"@radix-ui", "/", "react-dialog">>,
     <<"embla-carousel-react">>}
RegistrySpecs ==
    {<<"@", "/", "registry", "/", "default", "/", "ui", "/", "button">>,
     <<"@", "/", "registry", "/", "default", "/", "hooks", "/", "use-mobile">>,
     <<"@", "/", "registry", "/", "default", "/", "lib", "/", "utils">>}
LibHooksSpecs ==
    {<<"@", "/", "lib", "/", "utils">>, <<"@", "/", "hooks", "/", "use-mobile">>,
     <<"@", "/", "hooks", "/", "use-toast">>, <<"@", "/", "hooks", "/", "ui", "/", "x">>}
GenericSpecs ==
    {<<"@", "/", "ui", "/", "button">>, <<"@", "/", "typing">>,
     <<"@", "/", "components", "/", "ui", "/", "card">>}
LocalSpecs == RegistrySpecs \cup LibHooksSpecs \cup GenericSpecs
Specs == CoreSpecs \cup ExternalSpecs \cup LocalSpecs

SingleLineForms == {"named", "default", "namespace", "defaultNamed", "type"}
MultiLineForms == {"multiLine", "multiLineType", "multiLineDefaultNamed"}
FromForms == SingleLineForms \cup MultiLineForms
ImportForms == FromForms \cup {"sideEffect"}

\* the name a default import binds: the module's own name where it is one
DefaultName(spec) == IF spec \in {<<"react">>, <<"clsx">>} THEN spec[1] ELSE "A"

\* the import clause of a statement, before ` from "<spec>"`
Clause(form, spec) ==
    CASE form = "named" -> <<"{", " ", "A", " ", "}">>
      [] form = "default" -> <<DefaultName(spec)>>
      [] form = "namespace" -> <<"*", " ", "as", " ", "A">>
      [] form = "defaultNamed" -> <<"A", ",", " ", "{", " ", "B", " ", "}">>
      [] form = "type" -> <<"type", " ", "{", " ", "A", " ", "}">>
      [] form = "multiLine" ->
           <<"{", "\n", " ", " ", "A", ",", "\n", " ", " ", "B", ",", "\n", " ", " ", "C",
             ",", "\n", "}">>
      [] form = "multiLineType" ->
           <<"type", " ", "{", "\n", " ", " ", "A", ",", "\n", " ", " ", "B", ",", "\n", "}">>
      [] form = "multiLineDefaultNamed" ->
           <<"A", ",", " ", "{", "\n", " ", " ", "type", " ", "B", ",", "\n", "}">>

\* the text of statement st with spec between its quotes, the line end included
RenderWith(st, spec) ==
    CASE st.form = "code" -> <<"const", " ", "x", " ", "=", " ", st.q>> \o spec
                              \o <<st.q, ";", "\n">>
      [] st.form = "sideEffect" -> <<"import", " ", st.q>> \o spec \o <<st.q, ";", "\n">>
      [] OTHER -> <<"import", " ">> \o Clause(st.form, st.spec)
                  \o <<" ", "from", " ", st.q>> \o spec \o <<st.q, ";", "\n">>

\* the text of one statement
Render(st) == RenderWith(st, st.spec)

RECURSIVE RenderFile(_)
RenderFile(sts) == IF sts = <<>> THEN <<>> ELSE Render(Head(sts)) \o RenderFile(Tail(sts))

\* every form with every specifier; the quote character varies on two forms
Statements ==
    [form : ImportForms, spec : Specs, q : {"\""}]
    \cup [form : {"named", "sideEffect"}, spec : Specs, q : {"'"}]

Context ==
    {[form |-> "sideEffect", spec |-> <<"server-only">>, q |-> "\""],
     [form |-> "code", spec |-> <<"y">>, q |-> "'"],
     [form |-> "multiLine", spec |-> <<"react-hook-form">>, q |-> "\""],
     [form |-> "type", spec |-> <<"@", "/", "registry", "/", "default", "/", "ui", "/", "toast">>,
      q |-> "'"]}

RECURSIVE SeqsUpTo(_, _)
\* the sequences over S of length at most n
SeqsUpTo(S, n) ==
    IF n = 0 THEN {<<>>}
    ELSE LET shorter == SeqsUpTo(S, n - 1)
         IN shorter \cup {Append(x, e) : x \in shorter, e \in S}

\* a statement of any form and specifier among at most MaxContext others
SourceFiles ==
    {ctx[1] \o <<st>> \o ctx[2] :
        st \in Statements,
        ctx \in {c \in SeqsUpTo(Context, MaxContext) \X SeqsUpTo(Context, MaxContext) :
                    Len(c[1]) + Len(c[2]) <= MaxContext}}

\* -------------------------------------------------------------- file index

Ts == <<".ts">>
Tsx == <<".tsx">>

NoIndex == <<>>

\* the entries the unit tests record
TestIndex ==
    (<<"hooks", "/", "use-mobile">> :> Tsx) @@ (<<"hooks", "/", "use-toast">> :> Ts)
    @@ (<<"lib", "/", "utils">> :> Ts) @@ (<<"ui", "/", "button">> :> Tsx)
    @@ (<<"ui", "/", "toast">> :> Tsx) @@ (<<"ui", "/", "dialog">> :> Tsx)
    @@ (<<"ui", "/", "sidebar">> :> Tsx)

\* an index built while the utility module is a .tsx file
UtilsTsxIndex == (<<"lib", "/", "utils">> :> Tsx) @@ (<<"ui", "/", "button">> :> Tsx)

Indexes == {NoIndex, TestIndex, UtilsTsxIndex}

\* the logical path of a rewritten specifier: "@/default/" stripped
LogicalPath(path) ==
    IF startsWith(path, <<"@", "/", "default", "/">>) THEN SubSeq(path, 5, Len(path))
    ELSE path

\* the extension of the file a rewritten specifier names
determineFileExtension(index, path) ==
    IF LogicalPath(path) \in DOMAIN index THEN index[LogicalPath(path)]
    ELSE IF includes(path, <<"/", "ui", "/">>) THEN Tsx ELSE Ts

\* ------------------------------------------------------------------ state

VARIABLES
    fileExtensionMap,    \* the file index
    stmts,               \* the statements of the file being copied
    content,             \* the text readTextFile returned
    newContent,          \* the text transformFile returned
    transformedContent,  \* the text transformImports returned
    coreImports, externalImports, localImports,  \* the three frequency maps
    keyOrder,            \* the keys of the three maps, in insertion order
    sightings,           \* every value of importPath so far, in order
    pc

\* the run of a script: main() of update.ts over a registry tree; the
\* process state (todo, stack, console, exitCode, faults) also serves the run
\* of build-exports
VARIABLES
    registry,    \* the source tree: directory path -> its entries
    targetDirs,  \* the directories under TARGET_BASE_PATH
    targetFiles, \* the files under TARGET_BASE_PATH: path -> text
    todo,        \* the directories the script has yet to visit
    stack,       \* the directory listings in progress, innermost last
    cur,         \* sourcePath, which is targetPath, below the two roots
    console,     \* the lines logged
    exitCode,    \* the exit status, NoExit while the process runs
    faults,      \* the filesystem errors raised so far
    trace        \* the filesystem calls made, in order

\* the run of build-exports
VARIABLES
    srcDefault,  \* SRC_DIR: directory name -> its entries
    denoJson,    \* deno.json on disk
    found,       \* what getComponentFiles returns
    newExports,  \* what generateExports returns
    config       \* deno.json as main holds it

\* the run of enhance-components
VARIABLES
    permits,     \* Semaphore.permits
    waiting,     \* Semaphore.waiting: the tasks whose resolve function is queued
    tasks        \* the enhanceComponent calls: task number -> its position

\* the module state of use-toast
VARIABLES
    memoryState,    \* memoryState
    toastTimeouts,  \* the keys of the toastTimeouts map
    timers,         \* the callbacks setTimeout holds: toast id -> how many
    count,          \* the counter of genId
    action,         \* the action dispatched last
    previous        \* memoryState before the action dispatched last

fileVars == <<fileExtensionMap, stmts, content, newContent, transformedContent,
              coreImports, externalImports, localImports, keyOrder, sightings>>
walkVars == <<registry, targetDirs, targetFiles, todo, stack, cur, console, exitCode,
              faults, trace>>
exportVars == <<srcDefault, denoJson, found, newExports, config>>
enhanceVars == <<permits, waiting, tasks>>
toastVars == <<memoryState, toastTimeouts, timers, count, action, previous>>

vars == <<fileVars, walkVars, exportVars, enhanceVars, toastVars, pc>>

NoExit == -1
NoKeys == [core |-> <<>>, external |-> <<>>, local |-> <<>>]

\* main() is not running
WalkIdle ==
    /\ registry = <<>>
    /\ targetDirs = {}
    /\ targetFiles = <<>>
    /\ todo = <<>>
    /\ stack = <<>>
    /\ cur = <<>>
    /\ console = <<>>
    /\ exitCode = NoExit
    /\ faults = 0
    /\ trace = <<>>

\* build-exports is not running
ExportsIdle ==
    /\ srcDefault = <<>>
    /\ denoJson = <<>>
    /\ found = <<>>
    /\ newExports = <<>>
    /\ config = <<>>

\* enhance-components is not running
EnhanceIdle ==
    /\ permits = 0
    /\ waiting = <<>>
    /\ tasks = <<>>

NoToasts == [toasts |-> <<>>]
NoAction == [type |-> "none"]

\* use-toast as loaded: no toast, no timer, nothing dispatched
ToastIdle ==
    /\ memoryState = NoToasts
    /\ toastTimeouts = {}
    /\ timers = <<>>
    /\ count = 0
    /\ action = NoAction
    /\ previous = NoToasts

Init ==
    /\ fileExtensionMap \in Indexes
    /\ stmts = <<>>
    /\ content = <<>>
    /\ newContent = <<>>
    /\ transformedContent = <<>>
    /\ coreImports = <<>>
    /\ externalImports = <<>>
    /\ localImports = <<>>
    /\ keyOrder = NoKeys
    /\ sightings = <<>>
    /\ WalkIdle
    /\ ExportsIdle
    /\ EnhanceIdle
    /\ ToastIdle
    /\ pc = "readTextFile"

\* const content = await Deno.readTextFile(sourcePath)
ReadTextFile ==
    /\ pc = "readTextFile"
    /\ \E f \in SourceFiles : stmts' = f /\ content' = RenderFile(f)
    /\ pc' = "transformFile"
    /\ UNCHANGED <<fileExtensionMap, newContent, transformedContent,
                   coreImports, externalImports, localImports, keyOrder, sightings>>
    /\ UNCHANGED <<walkVars, exportVars, enhanceVars, toastVars>>

\* let transformedContent = await transformFile(content)
TransformFile ==
    /\ pc = "transformFile"
    /\ newContent' = transformFile(content)
    /\ \E paths \in {importPaths(content, 1)} :
          \E maps \in {Categorize([core |-> coreImports, external |-> externalImports,
                                    local |-> localImports], paths)} :
              /\ coreImports' = maps.core
              /\ externalImports' = maps.external
              /\ localImports' = maps.local
              /\ keyOrder' = KeyOrder(keyOrder, paths)
              /\ sightings' = sightings \o paths
    /\ pc' = "transformImports"
    /\ UNCHANGED <<fileExtensionMap, stmts, content, transformedContent>>
    /\ UNCHANGED <<walkVars, exportVars, enhanceVars, toastVars>>

\* transformedContent = transformImports(transformedContent)
TransformImports ==
    /\ pc = "transformImports"
    /\ transformedContent' = transformImports(newContent)
    /\ pc' = "writeTextFile"
    /\ UNCHANGED <<fileExtensionMap, stmts, content, newContent,
                   coreImports, externalImports, localImports, keyOrder, sightings>>
    /\ UNCHANGED <<walkVars, exportVars, enhanceVars, toastVars>>

\* await Deno.writeTextFile(targetPath, transformedContent)
WriteTextFile ==
    /\ pc = "writeTextFile"
    /\ pc' = "written"
    /\ UNCHANGED <<fileVars, walkVars, exportVars, enhanceVars, toastVars>>

Next == ReadTextFile \/ TransformFile \/ TransformImports \/ WriteTextFile

Spec == Init /\ [][Next]_vars

\* ----------------------------------------------------- reading the output

RECURSIVE QuotedStrings(_)
\* the texts between successive pairs of quote characters, in order
QuotedStrings(text) ==
    LET opens == {i \in 1..Len(text) : text[i] \in QUOTES}
    IN IF opens = {} THEN <<>>
       ELSE LET i == Min(opens)
                closes == {j \in (i + 1)..Len(text) : text[j] \in QUOTES}
            IN IF closes = {} THEN <<>>
               ELSE <<SubSeq(text, i + 1, Min(closes) - 1)>>
                    \o QuotedStrings(SubSeq(text, Min(closes) + 1, Len(text)))

RECURSIVE SplitStatements(_)
\* the text cut after every ";" that ends a line
SplitStatements(text) ==
    LET ends == {j \in 1..(Len(text) - 1) : text[j] = ";" /\ text[j + 1] = "\n"}
    IN IF ends = {} THEN (IF text = <<>> THEN <<>> ELSE <<text>>)
       ELSE <<SubSeq(text, 1, Min(ends) + 1)>>
            \o SplitStatements(SubSeq(text, Min(ends) + 2, Len(text)))

\* transformImports has run on the file
Rewritten == pc \in {"writeTextFile", "written"}
\* transformFile has run on the file
Extracted == pc \in {"transformImports", "writeTextFile", "written"}

\* what transformFile put in front of the file's text
Header == SubSeq(newContent, 1, Len(newContent) - Len(content))
\* the statements of the output, after the header
OutStmts ==
    SplitStatements(SubSeq(transformedContent, Len(Header) + 1, Len(transformedContent)))
\* the quoted strings of the output, after those of the header
OutSpecs ==
    LET qs == QuotedStrings(transformedContent)
    IN SubSeq(qs, Len(QuotedStrings(Header)) + 1, Len(qs))
\* the output has a statement and a quoted string for each statement of the input
Aligned ==
    /\ startsWith(transformedContent, Header)
    /\ Len(OutStmts) = Len(stmts)
    /\ Len(OutSpecs) = Len(stmts)

Last(seq) == seq[Len(seq)]

IsLocal(spec) == startsWith(spec, <<"@", "/">>)
IsRegistry(spec) == startsWith(spec, <<"@", "/", "registry", "/", "default", "/">>)
\* the sub-path of a local specifier below its alias prefix
SubPath(spec) == IF IsRegistry(spec) THEN SubSeq(spec, 7, Len(spec)) ELSE SubSeq(spec, 3, Len(spec))
\* the specifier in the new namespace, without extension
Target(spec) == <<"@", "/", "default", "/">> \o SubPath(spec)

\* ----------------------------------------------------------------- claims

\* C1: every import from "@/registry/default/" + P is rewritten to
\* "@/default/" + P + ext, ext being the extension the file index records
\* for P or, when P is not indexed, ".tsx" under "/ui/" and ".ts" otherwise,
\* for plain and `import type` statements alike.
C1_RegistryRewrite ==
    Rewritten =>
        \A i \in 1..Len(stmts) :
            (stmts[i].form \in FromForms /\ IsRegistry(stmts[i].spec)) =>
                /\ Aligned
                /\ OutSpecs[i] = Target(stmts[i].spec)
                      \o determineFileExtension(fileExtensionMap, Target(stmts[i].spec))

\* C2: when the file index records ".tsx" for a logical path, a local
\* specifier that resolves to that path gets exactly ".tsx" appended,
\* whichever prefix rule matched.
C2_IndexedTsx ==
    Rewritten =>
        \A i \in 1..Len(stmts) :
            (/\ stmts[i].form \in FromForms
             /\ IsLocal(stmts[i].spec)
             /\ SubPath(stmts[i].spec) \in DOMAIN fileExtensionMap
             /\ fileExtensionMap[SubPath(stmts[i].spec)] = Tsx) =>
                /\ Aligned
                /\ Last(OutSpecs[i]) = ".tsx"
                /\ (stmts[i].spec = <<"@", "/", "hooks", "/", "use-mobile">> =>
                        OutSpecs[i] = <<"@", "/", "default", "/", "hooks", "/", "use-mobile",
                                        ".tsx">>)

\* C3: a local specifier whose logical path is absent from the index gets
\* ".tsx" appended if the path contains "/ui/" and ".ts" otherwise, under
\* every prefix rule; "@/ui/button" becomes "@/default/ui/button.tsx".
C3_FallbackHeuristic ==
    Rewritten =>
        \A i \in 1..Len(stmts) :
            (/\ stmts[i].form \in FromForms
             /\ IsLocal(stmts[i].spec)
             /\ SubPath(stmts[i].spec) \notin DOMAIN fileExtensionMap) =>
                /\ Aligned
                /\ <<Last(OutSpecs[i])>> = (IF includes(Target(stmts[i].spec), <<"/", "ui", "/">>)
                                            THEN Tsx ELSE Ts)
                /\ (stmts[i].spec = <<"@", "/", "ui", "/", "button">> =>
                        OutSpecs[i] = <<"@", "/", "default", "/", "ui", "/", "button", ".tsx">>)

\* C4: "@/lib/utils" is always rewritten to exactly "@/default/lib/utils.ts",
\* whatever the file index holds and whatever statements surround the import.
C4_LibUtils ==
    Rewritten =>
        \A i \in 1..Len(stmts) :
            (stmts[i].form \in FromForms /\ stmts[i].spec = <<"@", "/", "lib", "/", "utils">>) =>
                /\ Aligned
                /\ OutSpecs[i] = <<"@", "/", "default", "/", "lib", "/", "utils", ".ts">>

\* a multi-line import of "@/lib/utils" between other statements has been
\* rewritten while the index records another extension for lib/utils
C4_Witness ==
    /\ Rewritten
    /\ fileExtensionMap = UtilsTsxIndex
    /\ Len(stmts) > 1
    /\ \E i \in 1..Len(stmts) :
          /\ stmts[i].form = "multiLineDefaultNamed"
          /\ stmts[i].spec = <<"@", "/", "lib", "/", "utils">>
          /\ Aligned
          /\ OutSpecs[i] = <<"@", "/", "default", "/", "lib", "/", "utils", ".ts">>

\* C5: an import of a core module (react, clsx, tailwind-merge,
\* lucide-react) comes out textually identical: no scheme prefix, no extension.
C5_CoreUnchanged ==
    Rewritten =>
        \A i \in 1..Len(stmts) :
            (stmts[i].form \in ImportForms /\ stmts[i].spec \in CORE_MODULES) =>
                Aligned /\ OutStmts[i] = Render(stmts[i])

\* `import clsx from "clsx";` has been rewritten and is unchanged
C5_Witness ==
    /\ Rewritten
    /\ \E i \in 1..Len(stmts) :
          /\ stmts[i].form = "default"
          /\ stmts[i].spec = <<"clsx">>
          /\ Aligned
          /\ OutStmts[i] = <<"import", " ", "clsx", " ", "from", " ", "\"", "clsx", "\"",
                             ";", "\n">>

IsExternal(spec) == ~IsLocal(spec) /\ spec \notin CORE_MODULES

\* C6: an import whose specifier neither starts with "@/" nor is a core
\* module gets "npm:" prepended to the specifier exactly once, in each form
\* with a from clause: named, default, namespace, default plus named,
\* `import type`, and clauses over several lines.
C6_NpmPrefix ==
    Rewritten =>
        \A i \in 1..Len(stmts) :
            (stmts[i].form \in FromForms /\ IsExternal(stmts[i].spec)) =>
                /\ Aligned
                /\ OutSpecs[i] = <<"npm:">> \o stmts[i].spec
                /\ Cardinality(Occurrences(OutStmts[i], <<"npm:">>)) = 1

\* a multi-line `import type` of a scoped package carries the prefix
C6_Witness ==
    /\ Rewritten
    /\ \E i \in 1..Len(stmts) :
          /\ stmts[i].form = "multiLineType"
          /\ stmts[i].spec = <<"@radix-ui", "/", "react-dialog">>
          /\ Aligned
          /\ OutSpecs[i] = <<"npm:", "@radix-ui", "/", "react-dialog">>

\* C7, as claimed: every import whose specifier does not start with "@/"
\* comes out as it went in, with no scheme prefix.
C7_ExternalUntouched ==
    Rewritten =>
        \A i \in 1..Len(stmts) :
            (stmts[i].form \in ImportForms /\ ~IsLocal(stmts[i].spec)) =>
                Aligned /\ OutStmts[i] = Render(stmts[i])

\* C7, amended: an import whose specifier does not start with "@/" comes
\* out as it went in exactly when the specifier is a core module or the
\* statement is a bare side-effect import; otherwise the statement comes out
\* with "npm:" put before the specifier and nothing else changed.
C7_ExternalUntouchedIffCore ==
    Rewritten =>
        \A i \in 1..Len(stmts) :
            (stmts[i].form \in ImportForms /\ ~IsLocal(stmts[i].spec)) =>
                /\ Aligned
                /\ OutStmts[i] =
                      IF stmts[i].spec \in CORE_MODULES \/ stmts[i].form = "sideEffect"
                      THEN Render(stmts[i])
                      ELSE RenderWith(stmts[i], <<"npm:">> \o stmts[i].spec)
                /\ (OutStmts[i] = Render(stmts[i])) <=>
                      (stmts[i].spec \in CORE_MODULES \/ stmts[i].form = "sideEffect")

\* `import * as A from "@radix-ui/react-dialog";` has come out with the prefix
C7_Witness ==
    /\ Rewritten
    /\ \E i \in 1..Len(stmts) :
          /\ stmts[i].form = "namespace"
          /\ stmts[i].spec = <<"@radix-ui", "/", "react-dialog">>
          /\ Aligned
          /\ OutStmts[i] # Render(stmts[i])
          /\ OutStmts[i] = <<"import", " ", "*", " ", "as", " ", "A", " ", "from", " ", "\"",
                             "npm:", "@radix-ui", "/", "react-dialog", "\"", ";", "\n">>

RECURSIVE RenderFileWith(_, _)
\* the statements sts with the specifiers specs between the quotes of the
\* imports; code that is no import keeps its own string
RenderFileWith(sts, specs) ==
    IF sts = <<>> THEN <<>>
    ELSE RenderWith(Head(sts), IF Head(sts).form = "code" THEN Head(sts).spec ELSE Head(specs))
         \o RenderFileWith(Tail(sts), Tail(specs))

\* the specifier transformImports leaves for spec in a one-line named import
SingleLineRewrite(spec, q) ==
    QuotedStrings(transformImports(Render([form |-> "named", spec |-> spec, q |-> q])))[1]

\* C8: transformImports changes only the text between the quotes of import
\* specifiers: all other text comes out unchanged and in order, and the
\* specifier of an import over several lines is rewritten as the same
\* specifier is in a one-line import.
C8_OnlySpecifiersChange ==
    Rewritten =>
        /\ Aligned
        /\ transformedContent = Header \o RenderFileWith(stmts, OutSpecs)
        /\ \A i \in 1..Len(stmts) :
              stmts[i].form \in MultiLineForms =>
                  OutSpecs[i] = SingleLineRewrite(stmts[i].spec, stmts[i].q)

\* an import over five lines has had its local specifier rewritten, between
\* other statements
C8_Witness ==
    /\ Rewritten
    /\ Len(stmts) > 1
    /\ \E i \in 1..Len(stmts) :
          /\ stmts[i].form = "multiLine"
          /\ IsRegistry(stmts[i].spec)
          /\ Aligned
          /\ OutSpecs[i] # stmts[i].spec
          /\ OutStmts[i] = RenderWith(stmts[i], OutSpecs[i])

\* the specifiers recorded in the three frequency maps
Reported == DOMAIN coreImports \cup DOMAIN externalImports \cup DOMAIN localImports

\* C9: the extractor reports the specifier of every import statement of the
\* file, in each surface form: default, `import type`, namespace, named on
\* one or several lines, default plus named, and bare side-effect.
C9_ExtractsEveryForm ==
    Extracted =>
        \A i \in 1..Len(stmts) :
            stmts[i].form \in ImportForms => stmts[i].spec \in Reported

\* C10: no import statement that the extractor recognises with a "@/"
\* specifier keeps its original specifier in the rewriter's output.
C10_EveryLocalRewritten ==
    Rewritten =>
        \A i \in 1..Len(stmts) :
            (/\ stmts[i].form \in ImportForms
             /\ IsLocal(stmts[i].spec)
             /\ importPaths(Render(stmts[i]), 1) = <<stmts[i].spec>>) =>
                Aligned /\ OutSpecs[i] # stmts[i].spec

\* ------------------------------------------------------- the registry tree
\* A path is the token sequence of its text below SHADCN_REGISTRY_PATH, which
\* is its text below TARGET_BASE_PATH: <<"ui", "/", "button", ".tsx">>.

DIRECTORIES == <<"hooks", "lib", "ui">>

MaxDepth == 1
MaxFaults == 1

\* join(dir, name) of jsr:@std/path
joinPath(dir, name) == IF dir = <<>> THEN name ELSE dir \o <<"/">> \o name

FileEntry(name) == [name |-> name, isDirectory |-> FALSE]
DirEntry(name) == [name |-> name, isDirectory |-> TRUE]

Button == <<"button", ".tsx">>
Card == <<"card", ".tsx">>
UseMobile == <<"use-mobile", ".tsx">>
Utils == <<"utils", ".ts">>
Nested == <<"nested">>

HooksTrees == {<<>>, <<"hooks">> :> {FileEntry(UseMobile)}}
LibTrees == {<<>>, <<"lib">> :> {FileEntry(Utils)}}

RECURSIVE NestedTree(_, _)
\* dir holds card.tsx and, k levels deep, directories that hold the same
NestedTree(dir, k) ==
    IF k = 0 THEN dir :> {FileEntry(Card)}
    ELSE (dir :> {FileEntry(Card), DirEntry(Nested)})
         @@ NestedTree(joinPath(dir, Nested), k - 1)

UiTrees ==
    {<<>>, <<"ui">> :> {FileEntry(Button)}}
    \cup {(<<"ui">> :> {FileEntry(Button), DirEntry(Nested)})
          @@ NestedTree(<<"ui", "/", "nested">>, k - 1) : k \in 1..MaxDepth}

\* SHADCN_REGISTRY_PATH itself
Root == <<>> :> {}

\* the registry trees of a run; the empty one has no SHADCN_REGISTRY_PATH
Registries == {<<>>} \cup {Root @@ h @@ l @@ u : h \in HooksTrees, l \in LibTrees, u \in UiTrees}

Imp(form, spec) == [form |-> form, spec |-> spec, q |-> "\""]

\* the text of the file at path
FileContent(path) ==
    LET name == SubSeq(path, Len(path) - 1, Len(path))
    IN CASE name = UseMobile ->
              RenderFile(<<Imp("namespace", <<"react">>),
                           [form |-> "code", spec |-> <<"y">>, q |-> "'"]>>)
         [] name = Utils ->
              RenderFile(<<Imp("named", <<"clsx">>)>>) \o ReferenceLine
              \o RenderFile(<<Imp("named", <<"tailwind-merge">>)>>)
         [] name = Button ->
              RenderFile(<<Imp("namespace", <<"react">>),
                           Imp("named", <<"class-variance-authority">>),
                           Imp("named", <<"@", "/", "lib", "/", "utils">>),
                           Imp("named", <<"@", "/", "hooks", "/", "use-mobile">>)>>)
         [] name = Card ->
              RenderFile(<<Imp("namespace", <<"react">>),
                           Imp("multiLine", <<"@", "/", "registry", "/", "default", "/", "ui",
                                              "/", "button">>),
                           Imp("named", <<"@", "/", "lib", "/", "utils">>)>>)

\* ------------------------------------------------------------------ main()

\* the directory path and the directories above it, TARGET_BASE_PATH included
Ancestors(path) ==
    {<<>>} \cup {SubSeq(path, 1, i) :
                    i \in {j \in 1..Len(path) : j = Len(path) \/ path[j + 1] = "/"}}

Line(level, line, arg) == [level |-> level, line |-> line, arg |-> arg]

\* what a filesystem call may throw: a file may be gone when it is read
Errors == {"NotFound", "PermissionDenied"}

WalkInit ==
    /\ fileExtensionMap = NoIndex
    /\ stmts = <<>>
    /\ content = <<>>
    /\ newContent = <<>>
    /\ transformedContent = <<>>
    /\ coreImports = <<>>
    /\ externalImports = <<>>
    /\ localImports = <<>>
    /\ keyOrder = NoKeys
    /\ sightings = <<>>
    /\ registry \in Registries
    /\ targetDirs = {}
    /\ targetFiles = <<>>
    /\ todo = DIRECTORIES
    /\ stack = <<>>
    /\ cur = <<>>
    /\ console = <<>>
    /\ exitCode = NoExit
    /\ faults = 0
    /\ trace = <<>>
    /\ ExportsIdle
    /\ EnhanceIdle
    /\ ToastIdle
    /\ pc = "main"

\* a filesystem call that returned, and one that threw e
Call(op, path) == [op |-> op, path |-> path, error |-> "none"]
Threw(op, path, e) == [op |-> op, path |-> path, error |-> e]

\* Main without the check of SHADCN_REGISTRY_PATH
MainNoCheck ==
    /\ pc = "main"
    /\ console' = Append(console, Line("log", "starting", <<>>))
    /\ pc' = "loop"
    /\ UNCHANGED <<fileVars, registry, targetDirs, targetFiles, todo, stack, cur, exitCode,
                   faults, trace, exportVars, enhanceVars, toastVars>>

\* await Deno.stat(SHADCN_REGISTRY_PATH), and Deno.exit(1) when it throws
Main ==
    /\ pc = "main"
    /\ \E ok \in (IF <<>> \in DOMAIN registry THEN {TRUE} ELSE {})
                 \cup (IF <<>> \notin DOMAIN registry \/ faults < MaxFaults
                       THEN {FALSE} ELSE {}) :
          IF ok
          THEN /\ console' = Append(console, Line("log", "starting", <<>>))
               /\ trace' = Append(trace, Call("stat", <<>>))
               /\ pc' = "loop"
               /\ UNCHANGED <<exitCode, faults>>
          ELSE /\ console' = console \o <<Line("log", "starting", <<>>),
                                          Line("error", "noRegistry", <<>>)>>
               /\ trace' = Append(trace, Threw("stat", <<>>, "NotFound"))
               /\ faults' = IF <<>> \in DOMAIN registry THEN faults + 1 ELSE faults
               /\ exitCode' = 1
               /\ pc' = "exit"
    /\ UNCHANGED <<fileVars, registry, targetDirs, targetFiles, todo, stack, cur, exportVars, enhanceVars, toastVars>>

\* Catch with the loop left at the first directory that cannot be copied
CatchBreak(e, op) ==
    /\ console' = Append(console, IF e = "NotFound"
                                  THEN Line("warn", "notFound", <<Head(todo)>>)
                                  ELSE Line("error", "errorProcessing", <<Head(todo)>>))
    /\ trace' = Append(trace, Threw(op, cur', e))
    /\ todo' = <<>>
    /\ stack' = <<>>
    /\ pc' = "loop"

\* the catch clause of the for loop: a line on the console, then the next dir
Catch(e, op) ==
    /\ console' = Append(console, IF e = "NotFound"
                                  THEN Line("warn", "notFound", <<Head(todo)>>)
                                  ELSE Line("error", "errorProcessing", <<Head(todo)>>))
    /\ trace' = Append(trace, Threw(op, cur', e))
    /\ todo' = Tail(todo)
    /\ stack' = <<>>
    /\ pc' = "loop"

\* await Deno.stat(sourcePath)
StatSource ==
    /\ pc = "loop"
    /\ todo # <<>>
    /\ cur' = <<Head(todo)>>
    /\ IF cur' \in DOMAIN registry
       THEN /\ trace' = Append(trace, Call("stat", cur'))
            /\ pc' = "ensureTarget"
            /\ UNCHANGED <<console, todo, stack>>
       ELSE Catch("NotFound", "stat")
    /\ UNCHANGED <<fileVars, registry, targetDirs, targetFiles, exitCode, faults, exportVars, enhanceVars, toastVars>>

\* await ensureDir(targetPath); console.log(`Copying ${dir} components...`)
EnsureTarget ==
    /\ pc = "ensureTarget"
    /\ targetDirs' = targetDirs \cup Ancestors(cur)
    /\ console' = Append(console, Line("log", "copying", cur))
    /\ trace' = Append(trace, Call("ensureDir", cur))
    /\ pc' = "copyDirectory"
    /\ UNCHANGED <<fileVars, registry, targetFiles, todo, stack, cur, exitCode, faults,
                   exportVars, enhanceVars, toastVars>>

\* copyDirectory(source, target): await ensureDir(target)
CopyDirectory ==
    /\ pc = "copyDirectory"
    /\ targetDirs' = targetDirs \cup Ancestors(cur)
    /\ trace' = Append(trace, Call("ensureDir", cur))
    /\ pc' = "readDir"
    /\ UNCHANGED <<fileVars, registry, targetFiles, todo, stack, cur, console, exitCode,
                   faults, exportVars, enhanceVars, toastVars>>

\* Deno.readDir(source): the iteration over the entries starts
ReadDir ==
    /\ pc = "readDir"
    /\ stack' = Append(stack, [source |-> cur, entries |-> registry[cur]])
    /\ trace' = Append(trace, Call("readDir", cur))
    /\ pc' = "entry"
    /\ UNCHANGED <<fileVars, registry, targetDirs, targetFiles, todo, cur, console, exitCode,
                   faults, exportVars, enhanceVars, toastVars>>

\* one turn of `for await (const entry of Deno.readDir(source))`: the branch
\* on entry.isDirectory or, after the last entry, the return to the caller
Entry ==
    /\ pc = "entry"
    /\ LET frame == stack[Len(stack)]
       IN IF frame.entries = {}
          THEN /\ stack' = SubSeq(stack, 1, Len(stack) - 1)
               /\ IF stack' = <<>>
                  THEN /\ console' = Append(console, Line("log", "copied", <<Head(todo)>>))
                       /\ todo' = Tail(todo)
                       /\ pc' = "loop"
                  ELSE /\ pc' = "entry"
                       /\ UNCHANGED <<console, todo>>
               /\ UNCHANGED cur
          ELSE \E entry \in frame.entries :
                  /\ stack' = [stack EXCEPT ![Len(stack)].entries = @ \ {entry}]
                  /\ cur' = joinPath(frame.source, entry.name)
                  /\ pc' = IF entry.isDirectory THEN "copyDirectory" ELSE "copyRead"
                  /\ UNCHANGED <<console, todo>>
    /\ UNCHANGED <<fileVars, registry, targetDirs, targetFiles, exitCode, faults, trace,
                   exportVars, enhanceVars, toastVars>>

\* const content = await Deno.readTextFile(sourcePath)
CopyRead ==
    /\ pc = "copyRead"
    /\ content' = FileContent(cur)
    /\ trace' = Append(trace, Call("readTextFile", cur))
    /\ pc' = "transformFile"
    /\ UNCHANGED <<fileExtensionMap, stmts, newContent, transformedContent, coreImports,
                   externalImports, localImports, keyOrder, sightings>>
    /\ UNCHANGED <<registry, targetDirs, targetFiles, todo, stack, cur, console, exitCode,
                   faults, exportVars, enhanceVars, toastVars>>

\* CopyWrite with the text written before transformImports has run on it
CopyWriteNewContent ==
    /\ pc = "writeTextFile"
    /\ targetFiles' = [p \in DOMAIN targetFiles \cup {cur} |->
                          IF p = cur THEN newContent ELSE targetFiles[p]]
    /\ trace' = Append(trace, Call("writeTextFile", cur))
    /\ pc' = "entry"
    /\ UNCHANGED <<fileVars, registry, targetDirs, todo, stack, cur, console, exitCode,
                   faults, exportVars, enhanceVars, toastVars>>

\* await Deno.writeTextFile(targetPath, transformedContent)
CopyWrite ==
    /\ pc = "writeTextFile"
    /\ targetFiles' = [p \in DOMAIN targetFiles \cup {cur} |->
                          IF p = cur THEN transformedContent ELSE targetFiles[p]]
    /\ trace' = Append(trace, Call("writeTextFile", cur))
    /\ pc' = "entry"
    /\ UNCHANGED <<fileVars, registry, targetDirs, todo, stack, cur, console, exitCode,
                   faults, exportVars, enhanceVars, toastVars>>

\* the filesystem call that is due inside the try block
Due ==
    CASE pc = "loop" -> "stat"
      [] pc \in {"ensureTarget", "copyDirectory"} -> "ensureDir"
      [] pc = "readDir" -> "readDir"
      [] pc = "copyRead" -> "readTextFile"
      [] pc = "writeTextFile" -> "writeTextFile"

\* the filesystem call that is due throws: control passes to the catch clause
Throw ==
    /\ pc \in {"loop", "ensureTarget", "copyDirectory", "readDir", "copyRead", "writeTextFile"}
    /\ todo # <<>>
    /\ faults < MaxFaults
    /\ faults' = faults + 1
    /\ cur' = IF pc = "loop" THEN <<Head(todo)>> ELSE cur
    /\ \E e \in Errors :
          /\ pc = "loop" => cur' \in DOMAIN registry
          /\ pc # "copyRead" => e # "NotFound"
          /\ Catch(e, Due)
    /\ UNCHANGED <<fileVars, registry, targetDirs, targetFiles, exitCode, exportVars, enhanceVars, toastVars>>

RECURSIVE sortAscending(_)
\* sort with the comparator a.count - b.count
sortAscending(infos) ==
    IF infos = <<>> THEN <<>>
    ELSE LET rest == sortAscending(Tail(infos))
             before == {i \in 0..Len(rest) :
                           \A j \in 1..i : Head(infos).count - rest[j].count > 0}
             at == Max(before)
         IN SubSeq(rest, 1, at) \o <<Head(infos)>> \o SubSeq(rest, at + 1, Len(rest))

RECURSIVE sort(_)
\* Array.prototype.sort((a, b) => b.count - a.count): stable, count descending
sort(infos) ==
    IF infos = <<>> THEN <<>>
    ELSE LET rest == sort(Tail(infos))
             before == {i \in 0..Len(rest) :
                           \A j \in 1..i : rest[j].count - Head(infos).count > 0}
             at == Max(before)
         IN SubSeq(rest, 1, at) \o <<Head(infos)>> \o SubSeq(rest, at + 1, Len(rest))

\* printImportCategory(categoryName, imports); order is the key order of imports
printImportCategory(categoryName, imports, order) ==
    LET values == [i \in 1..Len(order) |-> imports[order[i]]]
        sortedImports == sort(values)
    IN <<Line("log", "category", <<categoryName>>)>>
       \o [i \in 1..Len(sortedImports) |-> Line("log", "import", sortedImports[i])]
       \o <<Line("log", "total", <<categoryName, Cardinality(DOMAIN imports)>>)>>

\* the lines main() logs after the for loop
Report ==
    /\ pc = "loop"
    /\ todo = <<>>
    /\ LET totalUniqueImports == Cardinality(DOMAIN coreImports)
                                 + Cardinality(DOMAIN externalImports)
                                 + Cardinality(DOMAIN localImports)
       IN console' = console \o <<Line("log", "completed", <<>>)>>
                     \o printImportCategory("CORE", coreImports, keyOrder.core)
                     \o printImportCategory("EXTERNAL", externalImports, keyOrder.external)
                     \o printImportCategory("LOCAL", localImports, keyOrder.local)
                     \o <<Line("log", "totalUnique", <<totalUniqueImports>>)>>
    /\ exitCode' = 0
    /\ pc' = "exit"
    /\ UNCHANGED <<fileVars, registry, targetDirs, targetFiles, todo, stack, cur, faults,
                   trace, exportVars, enhanceVars, toastVars>>

WalkNext ==
    \/ Main
    \/ StatSource
    \/ EnsureTarget
    \/ CopyDirectory
    \/ ReadDir
    \/ Entry
    \/ CopyRead
    \/ TransformFile
    \/ TransformImports
    \/ CopyWrite
    \/ Throw
    \/ Report

WalkSpec == WalkInit /\ [][WalkNext]_vars

\* a filesystem call of the walk returns, or main() logs and returns
Proceed ==
    Main \/ StatSource \/ EnsureTarget \/ CopyDirectory \/ ReadDir \/ Entry \/ CopyRead
    \/ CopyWrite \/ Report

\* transformFile or transformImports returns: synchronous code that runs
\* to its end, seen by the position it leaves
Return ==
    \/ pc = "transformFile" /\ pc' = "transformImports"
    \/ pc = "transformImports" /\ pc' = "writeTextFile"

\* the process runs on until main() returns or Deno.exit is called: a call
\* of the walk comes back, and synchronous code runs to its end
WalkLive == WalkSpec /\ WF_vars(Proceed) /\ WF_pc(Return)

\* -------------------------------------------------- claims about the walk

\* transformFile has just returned, or its text is on the way to the disk
Handed == pc \in {"transformImports", "writeTextFile"}

\* C11, as claimed: the text transformFile hands on to the rewriter is the
\* text it received, character for character, for every file.
C11_Observational == Handed => newContent = content

\* C11, amended: transformFile changes the text only by putting the line
\* `/// <reference lib="dom" />` and an empty line in front of a text that
\* does not contain `/// <reference lib="dom"`; what follows is the text it
\* received, and a text that contains the reference is handed on as it is.
C11_OnlyReferenceAdded ==
    Handed =>
        /\ Len(newContent) >= Len(content)
        /\ SubSeq(newContent, Len(newContent) - Len(content) + 1, Len(newContent)) = content
        /\ SubSeq(newContent, 1, Len(newContent) - Len(content))
              = IF Occurrences(content, <<"<reference", " ", "lib=", "\"", "dom", "\"">>) # {}
                THEN <<>>
                ELSE <<"///", " ", "<reference", " ", "lib=", "\"", "dom", "\"", " ", "/>",
                       "\n", "\n">>

\* a file that holds the reference after its first import has been handed
\* on unchanged
C11_Witness ==
    /\ Handed
    /\ cur = <<"lib", "/", "utils", ".ts">>
    /\ content # <<>>
    /\ content[1] = "import"
    /\ newContent = content

\* the number of times importPath has been extracted so far
Count(importPath) == Cardinality({i \in 1..Len(sightings) : sightings[i] = importPath})
\* the specifiers extracted so far
Seen == {sightings[i] : i \in 1..Len(sightings)}

\* every entry of imports holds its key and the number of its sightings
CountsRight(imports) ==
    \A importPath \in DOMAIN imports :
        /\ imports[importPath].count = Count(importPath)
        /\ imports[importPath].path = importPath

\* C12: at every point of a run over any number of files, a specifier is a
\* key of at most one of the three frequency maps, the keys are exactly the
\* specifiers extracted so far (none is ever removed), and each count is the
\* number of times that specifier has been extracted in the files scanned.
C12_CountsMatchSightings ==
    /\ DOMAIN coreImports \cap DOMAIN externalImports = {}
    /\ DOMAIN coreImports \cap DOMAIN localImports = {}
    /\ DOMAIN externalImports \cap DOMAIN localImports = {}
    /\ Reported = Seen
    /\ CountsRight(coreImports)
    /\ CountsRight(externalImports)
    /\ CountsRight(localImports)

\* "react" has been counted in three files and "@/lib/utils" in two
C12_Witness ==
    /\ pc = "exit"
    /\ Count(<<"react">>) = 3
    /\ coreImports[<<"react">>].count = 3
    /\ Count(<<"@", "/", "lib", "/", "utils">>) = 2
    /\ localImports[<<"@", "/", "lib", "/", "utils">>].count = 2

\* the call trace[i] threw, and not because a source subdirectory is missing
FsError(i) ==
    /\ trace[i].error # "none"
    /\ ~(/\ trace[i].op = "stat"
         /\ trace[i].error = "NotFound"
         /\ Len(trace[i].path) = 1
         /\ trace[i].path \notin DOMAIN registry)

\* C13: a filesystem error other than a missing source subdirectory ends
\* the run: it is the last filesystem call made, no further file or
\* directory is processed, and the process exits with a non-zero status.
C13_FsErrorFatal ==
    \A i \in 1..Len(trace) :
        FsError(i) => (i = Len(trace) /\ pc = "exit" /\ exitCode \notin {NoExit, 0})

\* the directories of the registry tree at or below dir
DirsUnder(dir) == {d \in DOMAIN registry : d # <<>> /\ startsWith(d, dir)}
\* the files of the registry tree at or below dir
FilesUnder(dir) ==
    UNION {{joinPath(d, e.name) : e \in {y \in registry[d] : ~y.isDirectory}} :
           d \in DirsUnder(dir)}

\* the registry tree exists
HasRegistry == <<>> \in DOMAIN registry
\* main() has found the registry tree and gone on to the for loop
Started == trace # <<>> /\ trace[1] = Call("stat", <<>>)
\* the positions of the console lines of one kind
LinesOf(line) == {i \in 1..Len(console) : console[i].line = line}
\* the console holds the line of that kind about directory dir
Logged(line, dir) == \E i \in LinesOf(line) : console[i].arg = <<dir>>
\* the names in DIRECTORIES
DirectoryNames == {DIRECTORIES[i] : i \in 1..Len(DIRECTORIES)}
\* the for loop has dealt with dir
Visited(dir) == \E i \in 1..Len(trace) : trace[i].op = "stat" /\ trace[i].path = <<dir>>

\* C14: when a source subdirectory (hooks, lib or ui) is missing, nothing
\* is ever created or written for it, and the run still ends with a warning
\* logged for it, every other subdirectory of the list visited (and copied
\* in full when no call failed), the completion banner and the report.
C14_MissingDirectorySkipped ==
    \A dir \in DirectoryNames :
        (Started /\ <<dir>> \notin DOMAIN registry) =>
            /\ \A p \in targetDirs \cup DOMAIN targetFiles : ~startsWith(p, <<dir>>)
            /\ pc = "exit" =>
                  /\ exitCode = 0
                  /\ Logged("notFound", dir)
                  /\ \A other \in DirectoryNames \ {dir} :
                        /\ Visited(other)
                        /\ faults = 0 => FilesUnder(<<other>>) \subseteq DOMAIN targetFiles
                  /\ LinesOf("completed") # {}
                  /\ LinesOf("totalUnique") # {}

\* lib is missing: hooks before it and ui after it have been copied and the
\* report printed
C14_Witness ==
    /\ pc = "exit"
    /\ Started
    /\ <<"lib">> \notin DOMAIN registry
    /\ Logged("notFound", "lib")
    /\ <<"hooks", "/", "use-mobile", ".tsx">> \in DOMAIN targetFiles
    /\ <<"ui", "/", "button", ".tsx">> \in DOMAIN targetFiles
    /\ LinesOf("totalUnique") # {}

\* C15: without the registry tree the run exits with status 1 and at no
\* point creates a directory, writes a file or prints a line of the report;
\* a run in which no filesystem call fails ends with status 0.
C15_ExitStatus ==
    /\ ~HasRegistry =>
          /\ targetDirs = {}
          /\ DOMAIN targetFiles = {}
          /\ \A i \in 1..Len(trace) : trace[i].op \notin {"ensureDir", "writeTextFile"}
          /\ LinesOf("completed") \cup LinesOf("category") \cup LinesOf("import")
                \cup LinesOf("total") \cup LinesOf("totalUnique") = {}
          /\ pc \in {"main", "exit"}
          /\ pc = "exit" => exitCode = 1
    /\ (HasRegistry /\ faults = 0 /\ pc = "exit") => exitCode = 0

\* the run without a registry tree has ended
C15_Witness ==
    /\ ~HasRegistry
    /\ pc = "exit"
    /\ exitCode = 1
    /\ LinesOf("noRegistry") # {}

\* the number of calls of op on path that returned
Calls(op, path) ==
    Cardinality({i \in 1..Len(trace) :
                    trace[i].op = op /\ trace[i].path = path /\ trace[i].error = "none"})

\* the walk is over and no filesystem call failed
Completed == pc = "exit" /\ HasRegistry /\ faults = 0

\* the target tree mirrors the registry tree below DIRECTORIES
Mirrored ==
    /\ DirsUnder(<<>>) \subseteq targetDirs
    /\ DOMAIN targetFiles = FilesUnder(<<>>)
    /\ \A p \in FilesUnder(<<>>) :
          /\ Calls("readTextFile", p) = 1
          /\ Calls("writeTextFile", p) = 1
          /\ targetFiles[p] = transformImports(transformFile(FileContent(p)))
    /\ \A d \in DirsUnder(<<>>) : d \notin DOMAIN targetFiles

\* C16: the walk over a finite tree ends, and when it ends and no call has
\* failed, every file at any depth below an existing source subdirectory has
\* been read once and written once to the same path below the target, the
\* text written being transformImports of transformFile of the text read,
\* and every directory is a directory of the target.
C16_WalkMirrorsTree == <>(pc = "exit") /\ [](Completed => Mirrored)

\* the file two directories down has been written where it belongs
C16_Witness ==
    /\ Completed
    /\ <<"ui", "/", "nested">> \in targetDirs
    /\ <<"ui", "/", "nested", "/", "card", ".tsx">> \in DOMAIN targetFiles
    /\ <<"hooks", "/", "use-mobile", ".tsx">> \in DOMAIN targetFiles
    /\ Mirrored

\* the extension of the registry file that a local specifier names, if any
Sibling(spec) ==
    {ext \in {Ts, Tsx} : SubPath(spec) \o ext \in FilesUnder(<<>>)}

\* C17: the file index is complete before the first file is rewritten, so
\* that a local import of a file of the tree is written with that file's
\* extension, whether the file it names is copied before or after the
\* importing file.
C17_SiblingExtensionResolved ==
    \A p \in DOMAIN targetFiles :
        LET read == QuotedStrings(transformFile(FileContent(p)))
            written == QuotedStrings(targetFiles[p])
        IN /\ Len(written) = Len(read)
           /\ \A i \in 1..Len(read) :
                 IsLocal(read[i]) =>
                     \A ext \in Sibling(read[i]) : written[i] = Target(read[i]) \o ext

\* the category transformFile files a specifier under
CategoryOf(importPath) ==
    IF importPath \in {<<"react">>, <<"clsx">>, <<"tailwind-merge">>, <<"lucide-react">>}
    THEN "CORE"
    ELSE IF IsLocal(importPath) THEN "LOCAL" ELSE "EXTERNAL"

\* the entries the report lists under a category, in the order printed
Listed(categoryName) ==
    LET first == CHOOSE i \in LinesOf("category") : console[i].arg = <<categoryName>>
        last == CHOOSE i \in LinesOf("total") : console[i].arg[1] = categoryName
    IN [k \in 1..(last - first - 1) |-> console[first + k]]

\* the report's section of one category is right
SectionRight(categoryName) ==
    LET listed == Listed(categoryName)
        seen == {importPath \in Seen : CategoryOf(importPath) = categoryName}
    IN /\ \A k \in 1..Len(listed) : listed[k].line = "import"
       /\ \A k, l \in 1..Len(listed) : listed[k].arg.path = listed[l].arg.path => k = l
       /\ {listed[k].arg.path : k \in 1..Len(listed)} = seen
       /\ \A k \in 1..Len(listed) : listed[k].arg.count = Count(listed[k].arg.path)
       /\ \A k \in 1..(Len(listed) - 1) : listed[k].arg.count >= listed[k + 1].arg.count
       /\ \E i \in LinesOf("total") : console[i].arg = <<categoryName, Cardinality(seen)>>

\* C18: no line of the report is printed before every subdirectory has been
\* dealt with; the report lists every distinct specifier once, under its
\* category, each category by non-increasing count, each category's total
\* is its number of distinct specifiers, and the grand total is the number
\* of distinct specifiers extracted in the whole run.
C18_Report ==
    /\ LinesOf("completed") \cup LinesOf("category") \cup LinesOf("import")
          \cup LinesOf("total") \cup LinesOf("totalUnique") # {} =>
          /\ todo = <<>>
          /\ \A dir \in DirectoryNames :
                \E i \in LinesOf("copied") \cup LinesOf("notFound")
                         \cup LinesOf("errorProcessing") :
                    console[i].arg = <<dir>> /\ i < Min(LinesOf("completed"))
    /\ (pc = "exit" /\ Started) =>
          /\ Cardinality(LinesOf("category")) = 3
          /\ Cardinality(LinesOf("total")) = 3
          /\ SectionRight("CORE")
          /\ SectionRight("EXTERNAL")
          /\ SectionRight("LOCAL")
          /\ Cardinality(LinesOf("import")) = Cardinality(Seen)
          /\ \E i \in LinesOf("totalUnique") :
                i = Len(console) /\ console[i].arg = <<Cardinality(Seen)>>

\* the report lists "react", counted twice, before "clsx", which went into
\* the map first
C18_Witness ==
    /\ pc = "exit"
    /\ Started
    /\ keyOrder.core = <<<<"clsx">>, <<"tailwind-merge">>, <<"react">>>>
    /\ Len(Listed("CORE")) = 3
    /\ Listed("CORE")[1].arg = [path |-> <<"react">>, count |-> 2]
    /\ Listed("CORE")[2].arg.path = <<"clsx">>

\* ------------------------------------------------------- a second rewrite

\* transformImports called with the text it returned for the file
Rerun ==
    /\ pc = "written"
    /\ content' = transformedContent
    /\ transformedContent' = transformImports(transformedContent)
    /\ pc' = "rerun"
    /\ UNCHANGED <<fileExtensionMap, stmts, newContent, coreImports, externalImports,
                   localImports, keyOrder, sightings>>
    /\ UNCHANGED <<walkVars, exportVars, enhanceVars, toastVars>>

RerunNext == Next \/ Rerun

RerunSpec == Init /\ [][RerunNext]_vars

\* a specifier with one of the prefixes the rules of transformImports name
OldStyle(spec) ==
    \/ startsWith(spec, <<"@", "/", "registry", "/", "default", "/">>)
    \/ startsWith(spec, <<"@", "/", "lib", "/">>)
    \/ startsWith(spec, <<"@", "/", "hooks", "/">>)

\* the second call has returned: content is its argument, the output of the
\* first call, and transformedContent its result
Reran == pc = "rerun"

\* no quoted string of the second call's argument has an old-style prefix
NoOldStyle ==
    \A i \in 1..Len(QuotedStrings(content)) : ~OldStyle(QuotedStrings(content)[i])

\* C19, as claimed: the rewriter applied to its own output returns it
\* unchanged whenever no quoted specifier of that output begins with
\* "@/registry/default/", "@/lib/" or "@/hooks/"; and so it does for the
\* output of every file that imports only core modules and specifiers with
\* those prefixes.
C19_SecondRunNoOp ==
    Reran =>
        /\ NoOldStyle => transformedContent = content
        /\ (\A i \in 1..Len(stmts) :
                stmts[i].form \in ImportForms =>
                    stmts[i].spec \in CORE_MODULES \/ OldStyle(stmts[i].spec))
              => transformedContent = content

\* C19, amended: the rewriter applied to its own output returns it unchanged
\* exactly when every import of the file that has a from clause names a core
\* module; an output with a rewritten local or external import is rewritten
\* again.
C19_SecondRunNoOpIffCore ==
    Reran =>
        ((transformedContent = content) <=>
            \A i \in 1..Len(stmts) :
                stmts[i].form \in FromForms => stmts[i].spec \in CORE_MODULES)

\* `import { A } from "@/lib/utils";` came out as "@/default/lib/utils.ts",
\* which has no old-style prefix, and the second call made it
\* "@/defaultdefault/lib/utils.ts.ts"
C19_Witness ==
    /\ Reran
    /\ stmts = <<[form |-> "named", spec |-> <<"@", "/", "lib", "/", "utils">>, q |-> "\""]>>
    /\ NoOldStyle
    /\ includes(content, <<"\"", "@", "/", "default", "/", "lib", "/", "utils", ".ts", "\"">>)
    /\ includes(transformedContent,
                <<"\"", "@", "/", "default", "default", "/", "lib", "/", "utils", ".ts", ".ts",
                  "\"">>)

\* ---------------------------------------------------------- build-exports
\* src/default as build-exports sees it: a directory name maps to the entries
\* Deno.readDir yields for it; a name outside the domain is a missing
\* directory.  File names are token sequences, <<"button", ".tsx">>.

EXPORT_DIRECTORIES == <<"hooks", "ui", "themes">>

Dirent(name, isFile) == [name |-> name, isFile |-> isFile]

ButtonTs == <<"button", ".ts">>
Readme == <<"README", ".md">>
NestedTs == <<"nested", ".ts">>
DefaultTheme == <<"default", ".ts">>

SrcHooks == {<<>>, "hooks" :> {Dirent(UseMobile, TRUE)}}
\* ui: missing; one component; two files that differ in extension only; a
\* component beside a file of another type and a directory named like a module
SrcUi ==
    {<<>>,
     "ui" :> {Dirent(Button, TRUE)},
     "ui" :> {Dirent(Button, TRUE), Dirent(ButtonTs, TRUE)},
     "ui" :> {Dirent(Button, TRUE), Dirent(Readme, TRUE), Dirent(NestedTs, FALSE)}}
SrcThemes == {<<>>, "themes" :> {Dirent(DefaultTheme, TRUE)}}

SrcDefaults == {h @@ u @@ t : h \in SrcHooks, u \in SrcUi, t \in SrcThemes}

\* String.prototype.endsWith for a suffix that is one token
endsWith(name, suffix) == name # <<>> /\ name[Len(name)] = suffix

\* extname of jsr:@std/path: the last dot-suffix of a name that does not
\* start with it
extname(file) ==
    IF Len(file) > 1 /\ file[Len(file)] \in {".ts", ".tsx", ".md"}
    THEN <<file[Len(file)]>> ELSE <<>>

\* basename(file, suffix) of jsr:@std/path, for a name without directories
basename(file, suffix) ==
    IF suffix # <<>> /\ Len(file) > Len(suffix)
       /\ SubSeq(file, Len(file) - Len(suffix) + 1, Len(file)) = suffix
    THEN SubSeq(file, 1, Len(file) - Len(suffix)) ELSE file

\* `./default/<dir>/<name>` and `./src/default/<dir>/<file>`
ExportKey(dir, name) == <<".", "/", "default", "/", dir, "/">> \o name
ExportPath(dir, file) == <<".", "/", "src", "/", "default", "/", dir, "/">> \o file

RECURSIVE Process(_, _, _)
\* one for loop of generateExports: exports[key] = path for each file in turn
Process(exports, dir, files) ==
    IF files = <<>> THEN exports
    ELSE LET file == Head(files)
             name == basename(file, extname(file))
             key == ExportKey(dir, name)
             set == IF key \in DOMAIN exports
                    THEN [exports EXCEPT ![key] = ExportPath(dir, file)]
                    ELSE exports @@ (key :> ExportPath(dir, file))
         IN Process(set, dir, Tail(files))

\* generateExports without the loop over themes
generateExportsNoThemes(hooks, ui, themes) ==
    Process(Process(<<>>, "hooks", hooks), "ui", ui)

generateExports(hooks, ui, themes) ==
    Process(Process(Process(<<>>, "hooks", hooks), "ui", ui), "themes", themes)

\* deno.json: exports is read only where hasExports holds
DenoJsonConfig(hasExports, exports) ==
    [tasks |-> "build-exports", hasExports |-> hasExports, exports |-> exports]

\* the exports of a tree with hooks/use-mobile.tsx and ui/button.tsx
UpToDate == generateExports(<<UseMobile>>, <<Button>>, <<>>)
\* the same keys, one of them with the path of a file that was renamed
Stale == [UpToDate EXCEPT ![ExportKey("ui", <<"button">>)] = ExportPath("ui", ButtonTs)]

DenoJsons ==
    {DenoJsonConfig(FALSE, <<>>), DenoJsonConfig(TRUE, <<>>), DenoJsonConfig(TRUE, UpToDate),
     DenoJsonConfig(TRUE, Stale)}

\* haveExportsChanged without the loop over the entries
haveExportsChangedCountOnly(hasExports, currentExports, new) ==
    \/ ~hasExports
    \/ Cardinality(DOMAIN currentExports) # Cardinality(DOMAIN new)

haveExportsChanged(hasExports, currentExports, new) ==
    \/ ~hasExports
    \/ Cardinality(DOMAIN currentExports) # Cardinality(DOMAIN new)
    \/ \E key \in DOMAIN new : key \notin DOMAIN currentExports \/ currentExports[key] # new[key]

NoFiles == [hooks |-> <<>>, ui |-> <<>>, themes |-> <<>>]

ExportsInit ==
    /\ fileExtensionMap = NoIndex
    /\ stmts = <<>>
    /\ content = <<>>
    /\ newContent = <<>>
    /\ transformedContent = <<>>
    /\ coreImports = <<>>
    /\ externalImports = <<>>
    /\ localImports = <<>>
    /\ keyOrder = NoKeys
    /\ sightings = <<>>
    /\ registry = <<>>
    /\ targetDirs = {}
    /\ targetFiles = <<>>
    /\ todo = EXPORT_DIRECTORIES
    /\ stack = <<>>
    /\ cur = <<>>
    /\ console = <<>>
    /\ exitCode = NoExit
    /\ faults = 0
    /\ trace = <<>>
    /\ srcDefault \in SrcDefaults
    /\ denoJson \in DenoJsons
    /\ found = NoFiles
    /\ newExports = <<>>
    /\ config = <<>>
    /\ EnhanceIdle
    /\ ToastIdle
    /\ pc = "main"

exportsFrame == <<fileVars, registry, targetDirs, targetFiles, cur, trace, srcDefault,
                  enhanceVars, toastVars>>

\* main: the first log line; getComponentFiles is called
ExportsMain ==
    /\ pc = "main"
    /\ todo = EXPORT_DIRECTORIES
    /\ console' = Append(console, Line("log", "startingExports", <<>>))
    /\ pc' = "readDir"
    /\ UNCHANGED <<exportsFrame, todo, stack, exitCode, faults, denoJson, found, newExports,
                   config>>

\* the catch of one try block of getComponentFiles
ScanCatch ==
    /\ console' = Append(console, Line("warn", "errorReading", Head(todo)))
    /\ todo' = Tail(todo)
    /\ stack' = <<>>
    /\ pc' = "readDir"

\* Deno.readDir of the next directory: the listing starts, or the directory
\* is missing and the catch runs
ScanDir ==
    /\ pc = "readDir"
    /\ todo # <<>>
    /\ IF Head(todo) \in DOMAIN srcDefault
       THEN /\ stack' = <<[source |-> Head(todo), entries |-> srcDefault[Head(todo)]]>>
            /\ pc' = "scanEntry"
            /\ UNCHANGED <<todo, console>>
       ELSE ScanCatch
    /\ UNCHANGED <<exportsFrame, exitCode, faults, denoJson, found, newExports, config>>

\* one turn of a for await loop, the entries coming in any order; after the
\* last one the next try block is entered
ScanEntry ==
    /\ pc = "scanEntry"
    /\ LET dir == stack[1].source
       IN IF stack[1].entries = {}
          THEN /\ todo' = Tail(todo)
               /\ stack' = <<>>
               /\ pc' = "readDir"
               /\ UNCHANGED found
          ELSE \E entry \in stack[1].entries :
                  /\ stack' = <<[stack[1] EXCEPT !.entries = @ \ {entry}]>>
                  /\ found' = IF /\ entry.isFile
                                 /\ endsWith(entry.name, ".ts") \/ endsWith(entry.name, ".tsx")
                              THEN [found EXCEPT ![dir] = Append(@, entry.name)]
                              ELSE found
                  /\ UNCHANGED <<todo, pc>>
    /\ UNCHANGED <<exportsFrame, console, exitCode, faults, denoJson, newExports, config>>

\* the listing of an existing directory fails, at its start or between two
\* entries: what was pushed stays
ScanThrow ==
    /\ \/ pc = "readDir" /\ todo # <<>> /\ Head(todo) \in DOMAIN srcDefault
       \/ pc = "scanEntry" /\ stack[1].entries # {}
    /\ faults < MaxFaults
    /\ faults' = faults + 1
    /\ ScanCatch
    /\ UNCHANGED <<exportsFrame, exitCode, denoJson, found, newExports, config>>

\* getComponentFiles has returned: the log line and generateExports
GenerateExports ==
    /\ pc = "readDir"
    /\ todo = <<>>
    /\ console' = Append(console, Line("log", "found",
                                       <<Len(found.hooks), Len(found.ui), Len(found.themes)>>))
    /\ newExports' = generateExports(found.hooks, found.ui, found.themes)
    /\ pc' = "readDenoJson"
    /\ UNCHANGED <<exportsFrame, todo, stack, exitCode, faults, denoJson, found, config>>

\* deno.json is read and parsed
ReadDenoJson ==
    /\ pc = "readDenoJson"
    /\ config' = denoJson
    /\ pc' = "haveExportsChanged"
    /\ UNCHANGED <<exportsFrame, todo, stack, console, exitCode, faults, denoJson, found,
                   newExports>>

\* deno.json cannot be read or parsed
ReadDenoJsonThrow ==
    /\ pc = "readDenoJson"
    /\ faults < MaxFaults
    /\ faults' = faults + 1
    /\ console' = Append(console, Line("error", "errorReadingDenoJson", <<>>))
    /\ exitCode' = 1
    /\ pc' = "exit"
    /\ UNCHANGED <<exportsFrame, todo, stack, denoJson, found, newExports, config>>

\* the comparison: return, or put the new exports into config
HaveExportsChanged ==
    /\ pc = "haveExportsChanged"
    /\ IF haveExportsChanged(config.hasExports, config.exports, newExports)
       THEN /\ config' = [config EXCEPT !.hasExports = TRUE, !.exports = newExports]
            /\ pc' = "writeDenoJson"
            /\ UNCHANGED <<console, exitCode>>
       ELSE /\ console' = Append(console, Line("log", "notChanged", <<>>))
            /\ exitCode' = 0
            /\ pc' = "exit"
            /\ UNCHANGED config
    /\ UNCHANGED <<exportsFrame, todo, stack, faults, denoJson, found, newExports>>

\* deno.json is written
WriteDenoJson ==
    /\ pc = "writeDenoJson"
    /\ denoJson' = config
    /\ console' = Append(console, Line("log", "updated", Cardinality(DOMAIN newExports)))
    /\ exitCode' = 0
    /\ pc' = "exit"
    /\ UNCHANGED <<exportsFrame, todo, stack, faults, found, newExports, config>>

\* deno.json cannot be written
WriteDenoJsonThrow ==
    /\ pc = "writeDenoJson"
    /\ faults < MaxFaults
    /\ faults' = faults + 1
    /\ console' = Append(console, Line("error", "errorWritingDenoJson", <<>>))
    /\ exitCode' = 1
    /\ pc' = "exit"
    /\ UNCHANGED <<exportsFrame, todo, stack, denoJson, found, newExports, config>>

ExportsNext ==
    \/ ExportsMain
    \/ ScanDir
    \/ ScanEntry
    \/ ScanThrow
    \/ GenerateExports
    \/ ReadDenoJson
    \/ ReadDenoJsonThrow
    \/ HaveExportsChanged
    \/ WriteDenoJson
    \/ WriteDenoJsonThrow

ExportsSpec == ExportsInit /\ [][ExportsNext]_vars

\* ------------------------------------------- claims about build-exports

\* build-exports has completed
Built == pc = "exit" /\ exitCode = 0

\* the regular .ts/.tsx files directly under dir
ComponentFiles(dir) ==
    IF dir \notin DOMAIN srcDefault THEN {}
    ELSE {e.name : e \in {x \in srcDefault[dir] :
                             x.isFile /\ (endsWith(x.name, ".ts") \/ endsWith(x.name, ".tsx"))}}

\* a file name without its extension
Stem(file) == SubSeq(file, 1, Len(file) - 1)

ExportDirectoryNames == {EXPORT_DIRECTORIES[i] : i \in 1..Len(EXPORT_DIRECTORIES)}

\* the entries the claim asks for, as pairs of key and path
Wanted ==
    UNION {{<<ExportKey(dir, Stem(file)), ExportPath(dir, file)>> : file \in ComponentFiles(dir)}
           : dir \in ExportDirectoryNames}

\* the entries of the exports map of deno.json on disk
Exported == {<<key, denoJson.exports[key]>> : key \in DOMAIN denoJson.exports}

\* the listing of dir was cut short by an error
CutShort(dir) ==
    dir \in DOMAIN srcDefault
    /\ \E i \in 1..Len(console) : console[i].line = "errorReading" /\ console[i].arg = dir

\* two files of dir share a name up to the extension
Collision(dir) ==
    \E f, g \in ComponentFiles(dir) : f # g /\ Stem(f) = Stem(g)

\* C20, as claimed: after a completed build-exports the exports map of
\* deno.json has exactly one entry for every regular .ts/.tsx file directly
\* under hooks, ui and themes, from ./default/<dir>/<name without extension>
\* to ./src/default/<dir>/<file name>, and no other entry.
C20_ExportsExact ==
    Built => denoJson.hasExports /\ Exported = Wanted

\* C20, amended: after a completed build-exports every entry of the exports
\* map is the entry of a regular .ts/.tsx file directly under hooks, ui or
\* themes; every such file in a directory whose listing was not cut short by
\* an error has its key in the map; files of a directory that differ in the
\* extension only share one key, so that the map is not the claimed one; and
\* the map is exactly the claimed one when no listing failed and no two files
\* share a key.
C20_ExportsOfListedFiles ==
    Built =>
        /\ denoJson.hasExports
        /\ Exported \subseteq Wanted
        /\ \A dir \in ExportDirectoryNames :
              ~CutShort(dir) =>
                  \A file \in ComponentFiles(dir) :
                      ExportKey(dir, Stem(file)) \in DOMAIN denoJson.exports
        /\ (\A dir \in ExportDirectoryNames : ~CutShort(dir) /\ ~Collision(dir))
              => Exported = Wanted
        /\ (\E dir \in ExportDirectoryNames : Collision(dir)) => Exported # Wanted

\* ui holds button.tsx and button.ts, themes holds default.ts, deno.json had
\* no exports: the run wrote one ui entry, for one of the two files, and the
\* themes entry
C20_Witness ==
    /\ Built
    /\ "hooks" \notin DOMAIN srcDefault
    /\ ComponentFiles("ui") = {Button, ButtonTs}
    /\ ComponentFiles("themes") = {DefaultTheme}
    /\ DOMAIN denoJson.exports =
          {ExportKey("ui", <<"button">>), ExportKey("themes", <<"default">>)}
    /\ denoJson.exports[ExportKey("ui", <<"button">>)] = ExportPath("ui", ButtonTs)
    /\ denoJson.exports[ExportKey("themes", <<"default">>)] = ExportPath("themes", DefaultTheme)
    /\ \E i \in 1..Len(console) : console[i].line = "updated" /\ console[i].arg = 2

\* ------------------------------------------------------ enhance-components

MAX_CONCURRENT == 4

\* the most paths given on the command line
MaxPaths == 5

\* Deno.args: the paths, numbered in the order given
Paths(n) == [i \in 1..n |-> i]

\* Semaphore.acquire() by task i with release() never handing over
acquireAlways(sem, i) ==
    [permits |-> sem.permits - 1, waiting |-> sem.waiting, granted |-> TRUE]

\* Semaphore.acquire() called by task i: granted at once when a permit is
\* free, else the task's resolve function is queued
acquire(sem, i) ==
    IF sem.permits > 0
    THEN [permits |-> sem.permits - 1, waiting |-> sem.waiting, granted |-> TRUE]
    ELSE [permits |-> sem.permits, waiting |-> Append(sem.waiting, i), granted |-> FALSE]

\* release() that counts the permit up also when it hands it over
releaseIncrement(sem) ==
    IF sem.waiting # <<>>
    THEN [permits |-> sem.permits + 1, waiting |-> Tail(sem.waiting),
          resolved |-> Head(sem.waiting)]
    ELSE [permits |-> sem.permits + 1, waiting |-> sem.waiting, resolved |-> 0]

\* release() that never looks at the queue
releaseNoShift(sem) ==
    [permits |-> sem.permits + 1, waiting |-> sem.waiting, resolved |-> 0]

\* Semaphore.release(): the first waiter is resolved, or the permit is
\* counted back; resolved is the task that now goes on, 0 for none
release(sem) ==
    IF sem.waiting # <<>>
    THEN [permits |-> sem.permits, waiting |-> Tail(sem.waiting),
          resolved |-> Head(sem.waiting)]
    ELSE [permits |-> sem.permits + 1, waiting |-> sem.waiting, resolved |-> 0]

\* a call of enhanceComponent, or a path main copied itself: where it is,
\* what it put at the mirrored path, how often it called release(), and the
\* lines it printed
Task(pos, result, released, log) ==
    [pos |-> pos, result |-> result, released |-> released, log |-> log]

\* after `await semaphore.acquire()`: the log line, the command is started
Enhancing(i, t) ==
    [t EXCEPT !.pos = "command", !.log = Append(@, Line("log", "enhancing", i))]

enhanceFrame == <<fileVars, registry, targetDirs, targetFiles, stack, cur, faults, trace,
                  exportVars, toastVars>>

EnhanceInit ==
    /\ fileExtensionMap = NoIndex
    /\ stmts = <<>>
    /\ content = <<>>
    /\ newContent = <<>>
    /\ transformedContent = <<>>
    /\ coreImports = <<>>
    /\ externalImports = <<>>
    /\ localImports = <<>>
    /\ keyOrder = NoKeys
    /\ sightings = <<>>
    /\ registry = <<>>
    /\ targetDirs = {}
    /\ targetFiles = <<>>
    /\ todo \in {Paths(n) : n \in 0..MaxPaths}
    /\ stack = <<>>
    /\ cur = <<>>
    /\ console = <<>>
    /\ exitCode = NoExit
    /\ faults = 0
    /\ trace = <<>>
    /\ ExportsIdle
    /\ EnhanceIdle
    /\ ToastIdle
    /\ pc = "main"

\* main up to the loop: SRC_DIR is made, RAW_DIR is there; without paths the
\* usage is printed and the process exits with 1, else the semaphore is made
EnhanceMain ==
    /\ pc = "main"
    /\ IF todo = <<>>
       THEN /\ console' = console \o <<Line("log", "starting", <<>>),
                                       Line("error", "noPaths", <<>>),
                                       Line("log", "usage", <<>>)>>
            /\ exitCode' = 1
            /\ pc' = "exit"
            /\ UNCHANGED permits
       ELSE /\ console' = console \o <<Line("log", "starting", <<>>),
                                       Line("log", "found", Len(todo))>>
            /\ permits' = MAX_CONCURRENT
            /\ pc' = "loop"
            /\ UNCHANGED exitCode
    /\ UNCHANGED <<enhanceFrame, todo, waiting, tasks>>

\* Deno.stat(RAW_DIR) throws: main returns after the warning
EnhanceMainNoRaw ==
    /\ pc = "main"
    /\ console' = console \o <<Line("log", "starting", <<>>), Line("log", "noRawDir", <<>>)>>
    /\ exitCode' = 0
    /\ pc' = "exit"
    /\ UNCHANGED <<enhanceFrame, todo, enhanceVars>>

\* main rejects, the handler of main().catch prints the error and exits
Rejected(lines) ==
    /\ console' = console \o lines \o <<Line("error", "error", <<>>)>>
    /\ exitCode' = 1
    /\ pc' = "exit"

\* Deno.mkdir(SRC_DIR) throws
EnhanceMainThrow ==
    /\ pc = "main"
    /\ Rejected(<<Line("log", "starting", <<>>)>>)
    /\ UNCHANGED <<enhanceFrame, todo, enhanceVars>>

\* the loop of main, a path with documentation: enhanceComponent is called
\* and runs up to its `await semaphore.acquire()`
Enhance ==
    /\ pc = "loop"
    /\ todo # <<>>
    /\ \E sem \in {acquire([permits |-> permits, waiting |-> waiting], Head(todo))} :
          /\ permits' = sem.permits
          /\ waiting' = sem.waiting
          /\ tasks' = Append(tasks,
                IF sem.granted THEN Enhancing(Head(todo), Task("acquire", "none", 0, <<>>))
                ELSE Task("acquire", "none", 0, <<>>))
    /\ todo' = Tail(todo)
    /\ UNCHANGED <<enhanceFrame, console, exitCode, pc>>

\* the loop of main, a path without documentation: main copies the file
Skip ==
    /\ pc = "loop"
    /\ todo # <<>>
    /\ console' = Append(console, Line("log", "skipping", Head(todo)))
    /\ tasks' = Append(tasks, Task("skipped", "original", 0, <<>>))
    /\ todo' = Tail(todo)
    /\ UNCHANGED <<enhanceFrame, exitCode, pc, permits, waiting>>

\* the same with Deno.mkdir or Deno.copyFile throwing: nothing catches it
SkipThrow ==
    /\ pc = "loop"
    /\ todo # <<>>
    /\ Rejected(<<Line("log", "skipping", Head(todo))>>)
    /\ UNCHANGED <<enhanceFrame, todo, enhanceVars>>

\* task i holds a permit and awaits what it started
Awaits(i, pos) ==
    /\ pc = "loop"
    /\ i \in 1..Len(tasks)
    /\ tasks[i].pos = pos

\* the command of task i ends with code 0
CommandExit(i) ==
    /\ Awaits(i, "command")
    /\ tasks' = [tasks EXCEPT ![i].pos = "write"]
    /\ UNCHANGED <<enhanceFrame, todo, console, exitCode, pc, permits, waiting>>

\* the command of task i ends with another code, or cannot be run: the
\* catch block prints the error and starts the copy of the original
CommandFail(i) ==
    /\ Awaits(i, "command")
    /\ tasks' = [tasks EXCEPT ![i].pos = "copy",
                              ![i].log = Append(@, Line("error", "failedToEnhance", i))]
    /\ UNCHANGED <<enhanceFrame, todo, console, exitCode, pc, permits, waiting>>

\* the finally block of task i without the release
FinallyNoRelease(i, result, line) ==
    /\ tasks' = [tasks EXCEPT ![i] = Task("done", result, tasks[i].released,
                                          Append(tasks[i].log, line))]
    /\ UNCHANGED <<permits, waiting>>

\* task i ends: its last line, then the finally block
Finally(i, result, line) ==
    \E sem \in {release([permits |-> permits, waiting |-> waiting])} :
        /\ permits' = sem.permits
        /\ waiting' = sem.waiting
        /\ tasks' = [j \in 1..Len(tasks) |->
                        IF j = i THEN Task("done", result, tasks[i].released + 1,
                                           Append(tasks[i].log, line))
                        ELSE IF j = sem.resolved THEN Enhancing(j, tasks[j])
                        ELSE tasks[j]]

\* Deno.mkdir and Deno.writeTextFile of the enhanced code
Write(i) ==
    /\ Awaits(i, "write")
    /\ Finally(i, "enhanced", Line("log", "enhanced", i))
    /\ UNCHANGED <<enhanceFrame, todo, console, exitCode, pc>>

\* one of them throws
WriteThrow(i) ==
    /\ Awaits(i, "write")
    /\ tasks' = [tasks EXCEPT ![i].pos = "copy",
                              ![i].log = Append(@, Line("error", "failedToEnhance", i))]
    /\ UNCHANGED <<enhanceFrame, todo, console, exitCode, pc, permits, waiting>>

\* the catch block: Deno.mkdir and Deno.copyFile of the original
Copy(i) ==
    /\ Awaits(i, "copy")
    /\ Finally(i, "original", Line("log", "copiedOriginal", i))
    /\ UNCHANGED <<enhanceFrame, todo, console, exitCode, pc>>

\* one of them throws: the inner catch prints the error
CopyThrow(i) ==
    /\ Awaits(i, "copy")
    /\ Finally(i, "none", Line("error", "failedToCopy", i))
    /\ UNCHANGED <<enhanceFrame, todo, console, exitCode, pc>>

\* every promise of enhanceTasks is resolved
Settled == \A i \in 1..Len(tasks) : tasks[i].pos \in {"done", "skipped"}

\* await Promise.all(enhanceTasks) returns, the last line, main returns
PromiseAll ==
    /\ pc = "loop"
    /\ todo = <<>>
    /\ Settled
    /\ console' = Append(console, Line("log", "completed", <<>>))
    /\ exitCode' = 0
    /\ pc' = "exit"
    /\ UNCHANGED <<enhanceFrame, todo, enhanceVars>>

TaskStep(i) ==
    \/ CommandExit(i)
    \/ CommandFail(i)
    \/ Write(i)
    \/ WriteThrow(i)
    \/ Copy(i)
    \/ CopyThrow(i)

EnhanceNext ==
    \/ EnhanceMain
    \/ EnhanceMainNoRaw
    \/ EnhanceMainThrow
    \/ Enhance
    \/ Skip
    \/ SkipThrow
    \/ \E i \in 1..MaxPaths : TaskStep(i)
    \/ PromiseAll

EnhanceSpec == EnhanceInit /\ [][EnhanceNext]_vars

\* every awaited call returns or throws: the commands end, the filesystem
\* answers, so the run does not stop while a step is left to take
EnhanceLive == EnhanceSpec /\ WF_vars(EnhanceNext)

\* --------------------------------------------------------------- use-toast
\* A toast is a record with its id and the props the model follows (title,
\* open); the props of an UPDATE_TOAST are a record with any of the fields.

TOAST_LIMIT == 1

MaxToasts == 2

\* Number.prototype.toString for the counter values the bound allows
toString(n) == <<"1", "2", "3", "4">>[n]

\* the ids genId can have returned
ToastIds == {toString(n) : n \in 1..MaxToasts}

Titles == {"a", "b"}

ToasterToasts == [id : ToastIds, title : Titles, open : BOOLEAN]

\* Partial<ToasterToast>: every choice of fields
Partials ==
    [id : ToastIds] \cup [id : ToastIds, title : Titles] \cup [id : ToastIds, open : BOOLEAN]
    \cup ToasterToasts \cup [title : Titles]

Actions ==
    [type : {"ADD_TOAST"}, toast : ToasterToasts]
    \cup [type : {"UPDATE_TOAST"}, toast : Partials]
    \cup [type : {"DISMISS_TOAST"}, toastId : ToastIds] \cup {[type |-> "DISMISS_TOAST"]}
    \cup [type : {"REMOVE_TOAST"}, toastId : ToastIds] \cup {[type |-> "REMOVE_TOAST"]}

\* Array.prototype.slice(0, n)
slice(seq, n) == SubSeq(seq, 1, IF Len(seq) < n THEN Len(seq) ELSE n)

\* { ...t, ...props }
spread(t, props) == props @@ t

\* action.toastId is undefined
noToastId(a) == "toastId" \notin DOMAIN a

\* reducer with the list left as long as it grows
reducerNoSlice(state, a) ==
    CASE a.type = "ADD_TOAST" -> [state EXCEPT !.toasts = <<a.toast>> \o state.toasts]
      [] a.type = "UPDATE_TOAST" ->
           LET merge(t) == IF "id" \in DOMAIN a.toast /\ t.id = a.toast.id
                           THEN spread(t, a.toast) ELSE t
           IN [state EXCEPT !.toasts = [i \in 1..Len(state.toasts) |-> merge(state.toasts[i])]]
      [] a.type = "DISMISS_TOAST" ->
           LET close(t) == IF noToastId(a) \/ t.id = a.toastId
                           THEN spread(t, [open |-> FALSE]) ELSE t
           IN [state EXCEPT !.toasts = [i \in 1..Len(state.toasts) |-> close(state.toasts[i])]]
      [] a.type = "REMOVE_TOAST" ->
           IF noToastId(a) THEN [state EXCEPT !.toasts = <<>>]
           ELSE LET others(t) == t.id # a.toastId
                IN [state EXCEPT !.toasts = SelectSeq(state.toasts, others)]

\* reducer with UPDATE_TOAST putting the props in place of the toast
reducerReplace(state, a) ==
    CASE a.type = "ADD_TOAST" ->
           [state EXCEPT !.toasts = slice(<<a.toast>> \o state.toasts, TOAST_LIMIT)]
      [] a.type = "UPDATE_TOAST" ->
           LET merge(t) == IF "id" \in DOMAIN a.toast /\ t.id = a.toast.id
                           THEN a.toast ELSE t
           IN [state EXCEPT !.toasts = [i \in 1..Len(state.toasts) |-> merge(state.toasts[i])]]
      [] a.type = "DISMISS_TOAST" ->
           LET close(t) == IF noToastId(a) \/ t.id = a.toastId
                           THEN spread(t, [open |-> FALSE]) ELSE t
           IN [state EXCEPT !.toasts = [i \in 1..Len(state.toasts) |-> close(state.toasts[i])]]
      [] a.type = "REMOVE_TOAST" ->
           IF noToastId(a) THEN [state EXCEPT !.toasts = <<>>]
           ELSE LET others(t) == t.id # a.toastId
                IN [state EXCEPT !.toasts = SelectSeq(state.toasts, others)]

\* the state reducer returns
reducer(state, a) ==
    CASE a.type = "ADD_TOAST" ->
           [state EXCEPT !.toasts = slice(<<a.toast>> \o state.toasts, TOAST_LIMIT)]
      [] a.type = "UPDATE_TOAST" ->
           LET merge(t) == IF "id" \in DOMAIN a.toast /\ t.id = a.toast.id
                           THEN spread(t, a.toast) ELSE t
           IN [state EXCEPT !.toasts = [i \in 1..Len(state.toasts) |-> merge(state.toasts[i])]]
      [] a.type = "DISMISS_TOAST" ->
           LET close(t) == IF noToastId(a) \/ t.id = a.toastId
                           THEN spread(t, [open |-> FALSE]) ELSE t
           IN [state EXCEPT !.toasts = [i \in 1..Len(state.toasts) |-> close(state.toasts[i])]]
      [] a.type = "REMOVE_TOAST" ->
           IF noToastId(a) THEN [state EXCEPT !.toasts = <<>>]
           ELSE LET others(t) == t.id # a.toastId
                IN [state EXCEPT !.toasts = SelectSeq(state.toasts, others)]

\* one more pending callback for toastId
Schedule(pending, toastId) ==
    IF toastId \in DOMAIN pending THEN [pending EXCEPT ![toastId] = @ + 1]
    ELSE pending @@ (toastId :> 1)

\* one pending callback for toastId has run
Ran(pending, toastId) ==
    IF pending[toastId] = 1 THEN [id \in DOMAIN pending \ {toastId} |-> pending[id]]
    ELSE [pending EXCEPT ![toastId] = @ - 1]

\* addToRemoveQueue without the test of toastTimeouts.has(toastId)
addToRemoveQueueNoHas(queue, toastId) ==
    [keys |-> queue.keys \cup {toastId}, timers |-> Schedule(queue.timers, toastId)]

\* addToRemoveQueue(toastId) on queue: keys are the keys of toastTimeouts,
\* timers the callbacks setTimeout holds
addToRemoveQueue(queue, toastId) ==
    IF toastId \in queue.keys THEN queue
    ELSE [keys |-> queue.keys \cup {toastId}, timers |-> Schedule(queue.timers, toastId)]

RECURSIVE forEach(_, _)
\* state.toasts.forEach((toast) => addToRemoveQueue(toast.id))
forEach(queue, toasts) ==
    IF toasts = <<>> THEN queue
    ELSE forEach(addToRemoveQueue(queue, Head(toasts).id), Tail(toasts))

\* the side effect of reducer: the queue after its DISMISS_TOAST case
sideEffects(queue, state, a) ==
    IF a.type # "DISMISS_TOAST" THEN queue
    ELSE IF ~noToastId(a) THEN addToRemoveQueue(queue, a.toastId)
    ELSE forEach(queue, state.toasts)

toastFrame == <<fileVars, walkVars, exportVars, enhanceVars, pc>>

\* dispatch(a): memoryState = reducer(memoryState, a), with its side effects
dispatch(a) ==
    /\ previous' = memoryState
    /\ action' = a
    /\ memoryState' = reducer(memoryState, a)
    /\ \E queue \in {sideEffects([keys |-> toastTimeouts, timers |-> timers], memoryState, a)} :
          /\ toastTimeouts' = queue.keys
          /\ timers' = queue.timers

ToastInit ==
    /\ fileExtensionMap = NoIndex
    /\ stmts = <<>>
    /\ content = <<>>
    /\ newContent = <<>>
    /\ transformedContent = <<>>
    /\ coreImports = <<>>
    /\ externalImports = <<>>
    /\ localImports = <<>>
    /\ keyOrder = NoKeys
    /\ sightings = <<>>
    /\ WalkIdle
    /\ ExportsIdle
    /\ EnhanceIdle
    /\ ToastIdle
    /\ pc = "toast"

\* toast(props): a new id, ADD_TOAST with open: true
Toast ==
    /\ pc = "toast"
    /\ count < MaxToasts
    /\ count' = count + 1
    /\ \E title \in Titles :
          dispatch([type |-> "ADD_TOAST",
                    toast |-> [id |-> toString(count'), title |-> title, open |-> TRUE]])
    /\ UNCHANGED toastFrame

\* the update function toast() returned for id
Update ==
    /\ pc = "toast"
    /\ \E id \in {toString(n) : n \in 1..count} :
          \E props \in {p \in Partials : "id" \in DOMAIN p /\ p.id = id} :
              dispatch([type |-> "UPDATE_TOAST", toast |-> props])
    /\ UNCHANGED <<toastFrame, count>>

\* the dismiss function toast() returned for id, onOpenChange(false), and
\* dismiss(toastId) of useToast, with or without an id
Dismiss ==
    /\ pc = "toast"
    /\ \/ \E id \in {toString(n) : n \in 1..count} :
             dispatch([type |-> "DISMISS_TOAST", toastId |-> id])
       \/ dispatch([type |-> "DISMISS_TOAST"])
    /\ UNCHANGED <<toastFrame, count>>

\* the callback of setTimeout in addToRemoveQueue for toastId,
\* TOAST_REMOVE_DELAY later: the entry is deleted and REMOVE_TOAST dispatched
TimeoutOf(toastId) ==
    /\ pc = "toast"
    /\ toastId \in DOMAIN timers
    /\ timers' = Ran(timers, toastId)
    /\ toastTimeouts' = toastTimeouts \ {toastId}
    /\ previous' = memoryState
    /\ action' = [type |-> "REMOVE_TOAST", toastId |-> toastId]
    /\ memoryState' = reducer(memoryState, action')
    /\ UNCHANGED <<toastFrame, count>>

Timeout == \E toastId \in ToastIds : TimeoutOf(toastId)

ToastNext == Toast \/ Update \/ Dismiss \/ Timeout

ToastSpec == ToastInit /\ [][ToastNext]_vars

\* every timer set runs out
ToastLive == ToastSpec /\ \A toastId \in ToastIds : WF_vars(TimeoutOf(toastId))

\* the reducer on its own: any state of up to MaxToasts toasts with
\* different ids, any one action
RECURSIVE ToastLists(_)
ToastLists(n) ==
    IF n = 0 THEN {<<>>}
    ELSE LET shorter == ToastLists(n - 1)
         IN shorter \cup {Append(l, t) : l \in shorter, t \in ToasterToasts}

States ==
    {[toasts |-> l] :
        l \in {x \in ToastLists(MaxToasts) :
                  \A i, j \in 1..Len(x) : i # j => x[i].id # x[j].id}}

ReducerInit ==
    /\ fileExtensionMap = NoIndex
    /\ stmts = <<>>
    /\ content = <<>>
    /\ newContent = <<>>
    /\ transformedContent = <<>>
    /\ coreImports = <<>>
    /\ externalImports = <<>>
    /\ localImports = <<>>
    /\ keyOrder = NoKeys
    /\ sightings = <<>>
    /\ WalkIdle
    /\ ExportsIdle
    /\ EnhanceIdle
    /\ memoryState \in States
    /\ toastTimeouts = {}
    /\ timers = <<>>
    /\ count = 0
    /\ action = NoAction
    /\ previous = NoToasts
    /\ pc = "reducer"

\* one call of reducer(state, action), as dispatch makes it
Reduce ==
    /\ pc = "reducer"
    /\ \E a \in Actions : dispatch(a)
    /\ pc' = "reduced"
    /\ UNCHANGED <<fileVars, walkVars, exportVars, enhanceVars, count>>

ReducerNext == Reduce

ReducerSpec == ReducerInit /\ [][ReducerNext]_vars

\* ------------------------------------------------- claims about use-toast

\* the ids of a list of toasts, in order
IdsOf(toasts) == [i \in 1..Len(toasts) |-> toasts[i].id]

\* C22: the state never holds more than TOAST_LIMIT toasts, and right after
\* an ADD_TOAST the list is the added toast followed by the toasts there
\* were, cut to TOAST_LIMIT.
C22_ToastLimit ==
    /\ Len(memoryState.toasts) <= TOAST_LIMIT
    /\ action.type = "ADD_TOAST" =>
          /\ memoryState.toasts # <<>>
          /\ memoryState.toasts[1] = action.toast
          /\ Len(memoryState.toasts) =
                IF Len(previous.toasts) + 1 < TOAST_LIMIT THEN Len(previous.toasts) + 1
                ELSE TOAST_LIMIT
          /\ \A i \in 2..Len(memoryState.toasts) : memoryState.toasts[i] = previous.toasts[i - 1]

\* a second toast was added while the first was shown: only the second is left
C22_Witness ==
    /\ action.type = "ADD_TOAST"
    /\ Len(previous.toasts) = 1
    /\ previous.toasts[1].id = "1"
    /\ action.toast.id = "2"
    /\ memoryState.toasts = <<action.toast>>

\* the position of the toast with this id, 0 if there is none
IndexOfId(toasts, id) ==
    IF \E i \in 1..Len(toasts) : toasts[i].id = id
    THEN CHOOSE i \in 1..Len(toasts) : toasts[i].id = id
    ELSE 0

\* C30: UPDATE_TOAST keeps the number, the order and the ids of the toasts
\* and gives the toast with the action's id the action's props, its other
\* props and every other toast staying as they were; REMOVE_TOAST with an id
\* takes out the toast with that id and nothing else, without an id it
\* empties the list; either action with an id that no toast has leaves the
\* list as it was.
C30_UpdateRemoveFrame ==
    pc = "reduced" =>
        LET old == previous.toasts
            new == memoryState.toasts
        IN /\ action.type = "UPDATE_TOAST" =>
                /\ Len(new) = Len(old)
                /\ IdsOf(new) = IdsOf(old)
                /\ \A i \in 1..Len(old) :
                      IF "id" \in DOMAIN action.toast /\ old[i].id = action.toast.id
                      THEN /\ DOMAIN new[i] = DOMAIN old[i] \cup DOMAIN action.toast
                           /\ \A f \in DOMAIN new[i] :
                                 new[i][f] = IF f \in DOMAIN action.toast
                                             THEN action.toast[f] ELSE old[i][f]
                      ELSE new[i] = old[i]
                /\ ("id" \notin DOMAIN action.toast
                    \/ IndexOfId(old, action.toast.id) = 0) => new = old
           /\ action.type = "REMOVE_TOAST" =>
                IF noToastId(action) THEN new = <<>>
                ELSE LET k == IndexOfId(old, action.toastId)
                     IN IF k = 0 THEN new = old
                        ELSE new = SubSeq(old, 1, k - 1) \o SubSeq(old, k + 1, Len(old))

\* of two toasts the second got a new title and nothing else changed
C30_Witness ==
    /\ pc = "reduced"
    /\ action = [type |-> "UPDATE_TOAST", toast |-> [id |-> "2", title |-> "b"]]
    /\ previous.toasts = <<[id |-> "1", title |-> "a", open |-> TRUE],
                           [id |-> "2", title |-> "a", open |-> FALSE]>>
    /\ memoryState.toasts = <<[id |-> "1", title |-> "a", open |-> TRUE],
                              [id |-> "2", title |-> "b", open |-> FALSE]>>

\* the toasts DISMISS_TOAST a is about
Targeted(a, t) == noToastId(a) \/ t.id = a.toastId

Present(id) == \E i \in 1..Len(memoryState.toasts) : memoryState.toasts[i].id = id

\* DISMISS_TOAST has just been applied to the toast with this id
Dismissed(id) ==
    /\ action.type = "DISMISS_TOAST"
    /\ \E i \in 1..Len(memoryState.toasts) :
          memoryState.toasts[i].id = id /\ Targeted(action, memoryState.toasts[i])

\* what C27 says of every state
C27_Timers ==
    /\ DOMAIN timers = toastTimeouts
    /\ \A id \in DOMAIN timers : timers[id] = 1
    /\ action.type = "DISMISS_TOAST" =>
          /\ Len(memoryState.toasts) = Len(previous.toasts)
          /\ \A i \in 1..Len(previous.toasts) :
                IF Targeted(action, previous.toasts[i])
                THEN /\ memoryState.toasts[i] = [previous.toasts[i] EXCEPT !.open = FALSE]
                     /\ previous.toasts[i].id \in toastTimeouts
                ELSE memoryState.toasts[i] = previous.toasts[i]
          /\ ~noToastId(action) => action.toastId \in toastTimeouts
    /\ (action.type = "REMOVE_TOAST" /\ ~noToastId(action)) =>
          /\ action.toastId \notin toastTimeouts
          /\ ~Present(action.toastId)

\* C27: DISMISS_TOAST sets open to false on the toasts it is about and puts
\* them in the removal queue; no id ever has more than one timer pending,
\* and the pending timers are the entries of toastTimeouts; the timer of an
\* id, when it runs out, deletes the entry and removes the toast; and a
\* toast that was dismissed is in the end no longer in the state.
C27_DismissRemoves ==
    /\ []C27_Timers
    /\ \A id \in ToastIds : Dismissed(id) ~> ~Present(id)

\* the toast was dismissed twice before its timer ran out: one timer
C27_Witness ==
    /\ action = [type |-> "DISMISS_TOAST", toastId |-> "1"]
    /\ previous.toasts = <<[id |-> "1", title |-> "a", open |-> FALSE]>>
    /\ memoryState.toasts = previous.toasts
    /\ toastTimeouts = {"1"}
    /\ timers = ("1" :> 1)

\* ---------------------------------------- claims about enhance-components

\* the tasks between their acquire() and their release()
Holders == {i \in 1..Len(tasks) : tasks[i].pos \in {"command", "write", "copy"}}

Printed(log, line) == \E k \in 1..Len(log) : log[k].line = line

\* new Semaphore(MAX_CONCURRENT) has run
SemaphoreMade == Printed(console, "found")

\* C21: never more than MAX_CONCURRENT tasks are between a completed
\* acquire() and their release().
C21_AtMostMaxConcurrent == Cardinality(Holders) <= MAX_CONCURRENT

\* four tasks hold a permit, among them the fifth, which had to wait for one
\* of the first four to end
C21_Witness ==
    /\ Cardinality(Holders) = MAX_CONCURRENT
    /\ MAX_CONCURRENT + 1 \in Holders
    /\ waiting = <<>>
    /\ \E i \in 1..MAX_CONCURRENT : tasks[i].pos = "done"

\* what C28 says of every state
C28_Conserved ==
    /\ permits \in 0..MAX_CONCURRENT
    /\ waiting # <<>> => permits = 0
    /\ SemaphoreMade => Cardinality(Holders) + permits = MAX_CONCURRENT
    /\ \A k \in 1..Len(waiting) :
          /\ waiting[k] \in 1..Len(tasks)
          /\ tasks[waiting[k]].pos = "acquire"
          /\ k > 1 => waiting[k - 1] < waiting[k]

\* a task releases while others wait
C28_HandOver ==
    (/\ waiting # <<>>
     /\ \E i \in 1..Len(tasks) : tasks[i].pos # "done" /\ tasks'[i].pos = "done")
    => /\ permits' = permits
       /\ waiting' = Tail(waiting)
       /\ Head(waiting) \in Holders'

Failed(i) == Printed(tasks[i].log, "failedToEnhance")

\* main rejected: the handler of main().catch ended the process
Rejection ==
    IF pc = "exit" /\ exitCode = 1 THEN console[Len(console)].line = "error" ELSE FALSE

\* C26 as stated: a task that failed after it had its permit has copied the
\* original, is resolved and has released once.
C26_FallbackCopies ==
    \A i \in 1..Len(tasks) :
        (tasks[i].pos = "done" /\ Failed(i)) =>
            tasks[i].result = "original" /\ tasks[i].released = 1

\* C26: a task that failed after it had its permit tries to copy the
\* original: when the copy goes through the original is at the mirrored
\* path, when the copy throws as well that error is printed and nothing is
\* there; either way the task's promise resolves, the permit was released
\* once, and the failure does not end the run.
C26_FallbackAttempted ==
    /\ \A i \in 1..Len(tasks) :
          /\ tasks[i].released = IF tasks[i].pos = "done" THEN 1 ELSE 0
          /\ (tasks[i].pos = "done" /\ Failed(i)) =>
                IF Printed(tasks[i].log, "failedToCopy")
                THEN tasks[i].result = "none"
                ELSE tasks[i].result = "original" /\ Printed(tasks[i].log, "copiedOriginal")
          /\ (tasks[i].pos = "done" /\ ~Failed(i)) => tasks[i].result = "enhanced"
          /\ tasks[i].pos = "copy" => Failed(i)
    /\ Rejection => \/ console[Len(console) - 1].line \in {"skipping", "starting"}

\* the first task failed and its copy failed too; the second was enhanced;
\* the run completed
C26_Witness ==
    /\ pc = "exit"
    /\ exitCode = 0
    /\ Len(tasks) = 2
    /\ tasks[1] = Task("done", "none", 1, <<Line("log", "enhancing", 1),
                                              Line("error", "failedToEnhance", 1),
                                              Line("error", "failedToCopy", 1)>>)
    /\ tasks[2].result = "enhanced"

CompletionPrinted == Printed(console, "completed")

\* main's own copy of a file without documentation threw
Aborted == IF Rejection THEN console[Len(console) - 1].line = "skipping" ELSE FALSE

\* every enhanceComponent call had its permit, gave it back and is resolved
AllFinished ==
    /\ Settled
    /\ waiting = <<>>
    /\ \A i \in 1..Len(tasks) :
          tasks[i].pos = "done" => Printed(tasks[i].log, "enhancing") /\ tasks[i].released = 1

\* C29 as stated: once main is in its loop, every task comes to hold a
\* permit and to its end, and the completion message is printed.
C29_AllFinish == (pc = "loop") ~> (CompletionPrinted /\ AllFinished)

\* C29: once main is in its loop, every task comes to hold a permit and to
\* its end and the completion message is printed, unless main's own copy of
\* a file without documentation throws: then main rejects and the process
\* exits with 1 at once, whatever the tasks are doing.
C29_AllFinishUnlessAborted ==
    /\ (pc = "loop") ~> ((CompletionPrinted /\ AllFinished) \/ Aborted)
    /\ [](CompletionPrinted => pc = "exit" /\ exitCode = 0)

\* five tasks, the fifth had to wait, all are done and the message is printed
C29_Witness ==
    /\ CompletionPrinted
    /\ Len(tasks) = MAX_CONCURRENT + 1
    /\ \A i \in 1..Len(tasks) : tasks[i].pos = "done"

\* ------------------------------------------------ claims about the rules

\* C23: the specifier of every local import with a from clause comes out as
\* the first rule that matches it, in the order registry prefix, lib or
\* hooks prefix, exact "@/lib/utils", generic, rewrites it; the exact rule
\* is never that first rule, and the rewriter without it returns the same
\* text for the whole file.
C23_FirstRuleDecides ==
    Rewritten =>
        /\ \A i \in 1..Len(stmts) :
              (stmts[i].form \in FromForms /\ IsLocal(stmts[i].spec)) =>
                  /\ Aligned
                  /\ OutSpecs[i] = RuleOutput(FirstRule(stmts[i].spec), stmts[i].spec)
                  /\ FirstRule(stmts[i].spec) # "exact"
        /\ transformedContent = transformImportsNoExact(newContent)

\* "@/lib/utils", which the exact rule matches, came out as the rule of lib
\* and hooks has it, next to a registry import that the registry rule and
\* the generic rule rewrite differently
C23_Witness ==
    /\ Rewritten
    /\ Aligned
    /\ \E i \in 1..Len(stmts) :
          /\ stmts[i].form \in FromForms
          /\ stmts[i].spec = <<"@", "/", "lib", "/", "utils">>
          /\ Matches("exact", stmts[i].spec)
          /\ FirstRule(stmts[i].spec) = "libHooks"
          /\ OutSpecs[i] = <<"@", "/", "default", "/", "lib", "/", "utils", ".ts">>
    /\ \E i \in 1..Len(stmts) :
          /\ stmts[i].spec = <<"@", "/", "registry", "/", "default", "/", "ui", "/", "toast">>
          /\ OutSpecs[i] = <<"@", "/", "default", "/", "ui", "/", "toast", ".tsx">>
          /\ RuleOutput("generic", stmts[i].spec) # OutSpecs[i]

\* C24: the text transformFile hands on is the reference line followed by
\* the text it received exactly when that text does not contain
\* `/// <reference lib="dom"`, and the received text itself when it does; so
\* the text handed on always contains the reference, and transformFile
\* applied to it returns it unchanged.
C24_ReferenceOnce ==
    Handed =>
        /\ (newContent = ReferenceLine \o content) <=> ~includes(content, ReferenceProbe)
        /\ includes(content, ReferenceProbe) => newContent = content
        /\ includes(newContent, ReferenceProbe)
        /\ transformFile(newContent) = newContent
        /\ transformFile(transformFile(content)) = transformFile(content)

\* a file without the reference got it in front, and a second application
\* would add nothing
C24_Witness ==
    /\ Handed
    /\ cur = <<"ui", "/", "button", ".tsx">>
    /\ ~includes(content, ReferenceProbe)
    /\ newContent = ReferenceLine \o content
    /\ transformFile(newContent) = newContent

\* ------------------------------------------- claims about the comparison

\* the exports field of a deno.json is missing or is another map than new
Differs(json, new) == ~json.hasExports \/ json.exports # new

\* generateExports has run
Generated == pc \in {"readDenoJson", "haveExportsChanged", "writeDenoJson", "exit"}

\* C25: haveExportsChanged returns false exactly when deno.json has an
\* exports field that holds the same keys with the same values as the
\* generated map; then the run ends without a write, and otherwise it goes
\* on to write deno.json with the generated map as its exports.
C25_WrittenIffChanged ==
    /\ Generated =>
          \A json \in DenoJsons :
              haveExportsChanged(json.hasExports, json.exports, newExports)
                 <=> Differs(json, newExports)
    /\ pc = "writeDenoJson" =>
          /\ Differs(denoJson, newExports)
          /\ config = [denoJson EXCEPT !.hasExports = TRUE, !.exports = newExports]
    /\ Printed(console, "notChanged") =>
          /\ ~Differs(denoJson, newExports)
          /\ denoJson \in DenoJsons
          /\ pc = "exit"
          /\ exitCode = 0
          /\ ~Printed(console, "updated")
          /\ ~Printed(console, "errorWritingDenoJson")
    /\ Printed(console, "updated") =>
          /\ denoJson.hasExports
          /\ denoJson.exports = newExports
          /\ exitCode = 0

\* deno.json held the two exports of the tree already: nothing was written
C25_Witness ==
    /\ Printed(console, "notChanged")
    /\ newExports = UpToDate
    /\ denoJson = DenoJsonConfig(TRUE, UpToDate)
    /\ pc = "exit"

====
